---- MODULE Spec2Model ----
(***************************************************************************)
(* Spinify: tone-arm / platter stepper control, NFC presence tracking,     *)
(* playback synchronisation and the button poll loop.                      *)
(*                                                                         *)
(* Time is counted in hundredths of a second.  An optional value (None)    *)
(* is a set with zero or one element.  Tone-arm positions are kept, as in  *)
(* the source, in the internal inverted convention (tone_arm_steps) and    *)
(* reported as steps_from_home = -tone_arm_steps.                          *)
(***************************************************************************)
EXTENDS Integers, Sequences, FiniteSets, TLC

\* ------------------------------------------------------------------------
\* Configuration and bounds
\* ------------------------------------------------------------------------

\* config.TONE_ARM_MAX_STEPS (SPINIFY_TONE_ARM_MAX_STEPS): a short arc
TONE_ARM_MAX_STEPS == 2

\* config.TONE_ARM_STEPS_PER_REV
TONE_ARM_STEPS_PER_REV == 512

\* denominators of the fractions handed to sync_tone_arm_to_fraction
FracDen == 4

\* angles (degrees) handed to move_tone_arm_to_angle go from -MaxAngle to MaxAngle
MaxAngle == 3

\* step arguments of move_tone_arm exceed the arc by this much on both sides
StepOvershoot == 1

\* racing moves may carry the arm at most this far beyond the arc
MaxDrift == 1

\* time.monotonic() when the process starts; the module-level deadlines
\* (all 0.0) are then in the past
StartTime == 300

\* playback_cooldown.COOLDOWN_SEC (3.0 s)
COOLDOWN_SEC == 300

\* nfc_service._NFC_GRACE_SEC (1.0 s)
NFC_GRACE_SEC == 100

\* start_polling(interval_sec=0.5) in app.lifespan
NfcPollInterval == 50

\* button_service.POLL_INTERVAL_SEC (0.02 s)
POLL_INTERVAL_SEC == 2

\* button_service.DEBOUNCE_SEC (0.4 s)
DEBOUNCE_SEC == 40

\* button_service.NFC_SCAN_INTERVAL_SEC (0.25 s)
NFC_SCAN_INTERVAL_SEC == 25

\* _shorten_rotation_scan_cooldown: time.monotonic() + 1.5
ShortenedCooldown == 150

\* time.sleep(0.4) before the first sync attempt after a start
SettleSleep == 40

\* time.sleep(0.3) after a failed sync attempt
RetrySleep == 30

\* for _ in range(2): the sync attempts after a start
SyncAttempts == 2

\* the count of toggle() calls in one activation of the button saturates here
MaxToggles == 2

\* button_service.NFC_SCAN_ROTATIONS
NFC_SCAN_ROTATIONS == 3

\* STEPS_PER_REV / TURNTABLE_TARGET_STEPS_PER_SEC: one platter rotation at
\* 33.33 rpm (1.8 s)
one_rotation_sec == 180

scan_duration_sec == NFC_SCAN_ROTATIONS * one_rotation_sec

\* the platter's target speed, in units of accel * dt (0.8 steps/s), the
\* amount by which the control loop changes the speed per iteration
TURNTABLE_TARGET_STEPS_PER_SEC == 2

\* accel * dt of _turntable_loop, in the same units
ACCEL_DT == 1

\* playback positions and track durations (ms) reported by the service
MaxDuration == 1

\* track counts reported for a context
MaxTracks == 2

None == {}

Some(v) == {v}

Get(o) == CHOOSE v \in o : TRUE

Abs(x) == IF x < 0 THEN -x ELSE x

Min(a, b) == IF a < b THEN a ELSE b

Max(a, b) == IF a > b THEN a ELSE b

\* Python int(p / q) for q > 0: truncation toward zero
Trunc(p, q) == IF p >= 0 THEN p \div q ELSE -((-p) \div q)

\* Python round(p / q) for q > 0: nearest integer, ties to even
RoundHalfEven(p, q) ==
    LET fl == p \div q
        r2 == 2 * (p % q)
    IN  IF r2 < q THEN fl
        ELSE IF r2 > q THEN fl + 1
        ELSE IF fl % 2 = 0 THEN fl ELSE fl + 1

\* max(-TONE_ARM_MAX_STEPS, min(TONE_ARM_MAX_STEPS, x))
ClampSteps(x) == Max(-TONE_ARM_MAX_STEPS, Min(TONE_ARM_MAX_STEPS, x))

\* the scan sub-task threads that can be alive at once, in the order in which
\* free ones are taken
ScanThreadOrder == <<"scan1", "scan2">>

ScanThreads == {ScanThreadOrder[k] : k \in 1 .. Len(ScanThreadOrder)}

\* the threads that command the tone-arm
ArmCallers == {"sync", "button", "api"} \cup ScanThreads

\* the threads that run sync_tone_arm_and_platter_to_playback
SyncCallers == {"sync", "button"} \cup ScanThreads

\* the threads that command the platter
PlatterCallers == {"sync", "button", "api"} \cup ScanThreads

\* NFC tag ids; record_mappings.json maps tagA to uriA and has no entry for tagB
UIDs == {"tagA", "tagB"}

URIs == {"uriA", "uriB"}

\* get_mapping_by_uid(load_mappings(), uid).spotify_uri, None when there is no
\* mapping or its spotify_uri is empty
MappingUri(uid) == IF uid = "tagA" THEN Some("uriA") ELSE None

Durations == {0, MaxDuration}

Positions == 0 .. (MaxDuration + 1)

\* get_context_track_position results: None or track_index / total_tracks
CtxPositions ==
    {None} \cup {Some([track_index |-> i, total_tracks |-> n]) :
                    i \in 0 .. MaxTracks, n \in 1 .. MaxTracks}

\* sp.current_playback(): raises, returns nothing, or returns a snapshot
Playbacks ==
    {[kind |-> "error"], [kind |-> "empty"]} \cup
    {[kind |-> "pb", is_playing |-> p, context_uri |-> c, progress_ms |-> m, duration_ms |-> d] :
        p \in BOOLEAN, c \in {None} \cup {Some(u) : u \in URIs},
        m \in Positions, d \in Durations}

StepArgs == (-(TONE_ARM_MAX_STEPS + StepOvershoot)) .. (TONE_ARM_MAX_STEPS + StepOvershoot)

Angles == (-MaxAngle) .. MaxAngle

Fractions == 0 .. FracDen

CalibValues == {None} \cup {Some(v) : v \in (-TONE_ARM_MAX_STEPS) .. TONE_ARM_MAX_STEPS}

VARIABLES
    tone_arm_steps,       \* MotorService._tone_arm_steps (internal, inverted sign)
    tone_arm_sequence_index,  \* MotorService._tone_arm_sequence_index
    arm,                  \* per calling thread: the frame of its move_tone_arm call
    record_start_steps,   \* config.TONE_ARM_RECORD_START_STEPS (optional)
    record_end_steps,     \* config.TONE_ARM_RECORD_END_STEPS (optional)
    fracLog,              \* the last completed sync_tone_arm_to_fraction call
    now,                  \* time.monotonic() / time.time(), in hundredths of a second
    last_local_start_monotonic,  \* playback_cooldown._last_local_start_monotonic
    rotation_scan_until,  \* playback_cooldown._rotation_scan_until
    cool,                 \* per thread: its record_local_start call
    turntable,            \* MotorService._turntable_* fields
    turntable_loop,       \* the _turntable_loop thread: position and locals
    pstart,               \* per thread: inside turntable_start, before the thread check
    pcreate,              \* per thread: found no live loop thread, about to start one
    loop_threads,         \* the number of _turntable_loop threads alive
    nfc_current_uid,      \* NFCService._current_uid (optional)
    nfc_last_seen_time,   \* NFCService._last_seen_time (optional)
    nfc_simulate,         \* NFCService._simulate
    reader_tag,           \* the tag lying on the reader (optional)
    nfc_poll,             \* the NFCService._poll_loop thread: position and locals
    sync,                 \* per thread: its sync_tone_arm_and_platter_to_playback call
    gpio_low,             \* GPIO.input(PIN_BUTTON) == GPIO.LOW: the button is held down
    toggles_in_hold,      \* toggle calls made since the button was last pressed down
    button,               \* the ButtonService._poll_loop thread: position, fields, locals
    rotation_scan_cooldown_until,  \* button_service._rotation_scan_cooldown_until
    scan                  \* per scan thread: its _rotation_scan_for_nfc / _poll_nfc_while_spinning run

vars == <<tone_arm_steps, tone_arm_sequence_index, arm, record_start_steps, record_end_steps, fracLog, now,
          last_local_start_monotonic, rotation_scan_until, cool, turntable, turntable_loop,
          pstart, pcreate, loop_threads, nfc_current_uid, nfc_last_seen_time, nfc_simulate, reader_tag,
          nfc_poll, sync, gpio_low, toggles_in_hold, button,
          rotation_scan_cooldown_until, scan>>

clockVars == <<now>>

coolVars == <<last_local_start_monotonic, rotation_scan_until, cool>>

platVars == <<turntable, turntable_loop, pstart, pcreate, loop_threads>>

nfcVars == <<nfc_current_uid, nfc_last_seen_time, nfc_simulate, reader_tag, nfc_poll>>

syncVars == <<sync>>

buttonVars == <<gpio_low, toggles_in_hold, button, rotation_scan_cooldown_until, scan>>

armVars == <<tone_arm_steps, tone_arm_sequence_index, arm, fracLog>>

calibVars == <<record_start_steps, record_end_steps>>

\* everything but the tone-arm
nonArmVars == <<record_start_steps, record_end_steps, now, last_local_start_monotonic,
                rotation_scan_until, cool, turntable, turntable_loop, pstart, pcreate,
                loop_threads,
                nfc_current_uid, nfc_last_seen_time, nfc_simulate, reader_tag,
                nfc_poll, sync, gpio_low, toggles_in_hold, button,
          rotation_scan_cooldown_until, scan>>

\* ------------------------------------------------------------------------
\* MotorService: tone-arm
\* ------------------------------------------------------------------------

\* HALF_STEP_SEQUENCE: the eight coil patterns of one cycle (index 0 first)
HALF_STEP_SEQUENCE ==
    << <<1, 0, 0, 0>>, <<1, 1, 0, 0>>, <<0, 1, 0, 0>>, <<0, 1, 1, 0>>,
       <<0, 0, 1, 0>>, <<0, 0, 1, 1>>, <<0, 0, 0, 1>>, <<1, 0, 0, 1>> >>

advance_unwrapped(idx, direction) == idx + direction

\* idx = (idx + direction) % len(seq), the new index of _step_tone_arm and
\* _step_turntable; the motors are driven (not simulated)
advance(idx, direction) == (idx + direction) % Len(HALF_STEP_SEQUENCE)

\* get_tone_arm_position().steps_from_home
steps_from_home == -tone_arm_steps

IdleFrame ==
    [pc |-> "idle", op |-> "none", steps |-> 0, absolute |-> FALSE,
     from_settings |-> FALSE, target |-> 0, n |-> 0, i |-> 0, dir |-> 1,
     num |-> 0, den |-> 1]

\* entry of move_tone_arm(steps, absolute, from_settings) by thread t;
\* op names the public method the thread called
EnterMove(t, op, steps, absolute, from_settings, num, den) ==
    arm' = [arm EXCEPT ![t] =
              [pc |-> "lock", op |-> op, steps |-> steps, absolute |-> absolute,
               from_settings |-> from_settings, target |-> 0, n |-> 0, i |-> 0,
               dir |-> 1, num |-> num, den |-> den]]

move_tone_arm(t, steps, absolute, from_settings) ==
    /\ arm[t].pc = "idle"
    /\ EnterMove(t, IF from_settings THEN "calibrate"
                    ELSE IF absolute THEN "absolute" ELSE "relative",
                 steps, absolute, from_settings, 0, 1)
    /\ UNCHANGED <<tone_arm_steps, tone_arm_sequence_index, fracLog>>

\* steps = int((angle_deg / 360.0) * TONE_ARM_STEPS_PER_REV), clamped
AngleSteps(angle_deg) == ClampSteps(Trunc(angle_deg * TONE_ARM_STEPS_PER_REV, 360))

move_tone_arm_to_angle(t, angle_deg) ==
    /\ arm[t].pc = "idle"
    /\ EnterMove(t, "angle", AngleSteps(angle_deg), TRUE, FALSE, 0, 1)
    /\ UNCHANGED <<tone_arm_steps, tone_arm_sequence_index, fracLog>>

start_step == IF record_start_steps # None THEN Get(record_start_steps) ELSE 0

end_step == IF record_end_steps # None THEN Get(record_end_steps) ELSE TONE_ARM_MAX_STEPS

FractionStepsNoStart(num, den) ==
    LET fnum == Max(0, Min(den, num))
    IN  ClampSteps(RoundHalfEven(fnum * (end_step - start_step), den))

\* fraction num/den (den > 0): f clamped to [0,1], then
\* int(round(start_step + f * (end_step - start_step))), clamped
FractionSteps(num, den) ==
    LET fnum == Max(0, Min(den, num))
    IN  ClampSteps(RoundHalfEven(start_step * den + fnum * (end_step - start_step), den))

sync_tone_arm_to_fraction(t, num, den) ==
    /\ arm[t].pc = "idle"
    /\ EnterMove(t, "fraction", FractionSteps(num, den), TRUE, FALSE, num, den)
    /\ UNCHANGED <<tone_arm_steps, tone_arm_sequence_index, fracLog>>

\* with self._lock: target_ext, target
ArmLock(t) ==
    /\ arm[t].pc = "lock"
    /\ LET target_ext == IF arm[t].absolute THEN arm[t].steps
                         ELSE (-tone_arm_steps) + arm[t].steps
       IN  arm' = [arm EXCEPT ![t].pc = "delta",
                              ![t].target = ClampSteps(-target_ext)]
    /\ UNCHANGED <<tone_arm_steps, tone_arm_sequence_index, fracLog>>

MoveDirectionFlipped(delta) == IF delta > 0 THEN -1 ELSE 1

\* direction of the move: 1 if delta > 0 else -1
MoveDirection(delta) == IF delta > 0 THEN 1 ELSE -1

\* delta = target - self._tone_arm_steps (read without the lock), the early
\* returns, direction and steps_to_move
ArmDelta(t) ==
    /\ arm[t].pc = "delta"
    /\ LET delta == arm[t].target - tone_arm_steps
           n     == IF arm[t].from_settings THEN Abs(arm[t].steps) ELSE Abs(delta)
           d     == IF arm[t].from_settings
                    THEN (IF arm[t].steps > 0 THEN 1 ELSE -1)
                    ELSE MoveDirection(delta)
       IN  arm' = [arm EXCEPT ![t].pc = IF n = 0 THEN "return" ELSE "step",
                              ![t].n = n, ![t].i = 0, ![t].dir = d]
    /\ UNCHANGED <<tone_arm_steps, tone_arm_sequence_index, fracLog>>

step_tone_arm_counting(t) ==
    /\ arm[t].pc = "step"
    /\ arm[t].i < arm[t].n
    /\ tone_arm_steps' = tone_arm_steps + arm[t].dir
    /\ tone_arm_sequence_index' = advance(tone_arm_sequence_index, arm[t].dir)
    /\ arm' = [arm EXCEPT ![t].i = @ + 1,
                          ![t].pc = IF arm[t].i + 1 = arm[t].n THEN "return" ELSE "step"]
    /\ UNCHANGED fracLog

\* _step_tone_arm(direction, update_steps): one iteration of the step loop
step_tone_arm(t) ==
    /\ arm[t].pc = "step"
    /\ arm[t].i < arm[t].n
    /\ arm[t].from_settings \/ Abs(tone_arm_steps + arm[t].dir) <= TONE_ARM_MAX_STEPS + MaxDrift
    /\ tone_arm_steps' = IF arm[t].from_settings THEN tone_arm_steps
                         ELSE tone_arm_steps + arm[t].dir
    /\ tone_arm_sequence_index' = advance(tone_arm_sequence_index, arm[t].dir)
    /\ arm' = [arm EXCEPT ![t].i = @ + 1,
                          ![t].pc = IF arm[t].i + 1 = arm[t].n THEN "return" ELSE "step"]
    /\ UNCHANGED fracLog

\* move_tone_arm returns to its caller
ArmReturn(t) ==
    /\ arm[t].pc = "return"
    /\ arm' = [arm EXCEPT ![t] = IdleFrame]
    /\ UNCHANGED <<tone_arm_steps, tone_arm_sequence_index, fracLog>>

\* the same return, remembering the fraction and the position it produced
ArmReturnLogged(t) ==
    /\ arm[t].pc = "return"
    /\ arm' = [arm EXCEPT ![t] = IdleFrame]
    /\ fracLog' = IF arm[t].op = "fraction"
                  THEN [num |-> arm[t].num, den |-> arm[t].den, pos |-> steps_from_home]
                  ELSE fracLog
    /\ UNCHANGED <<tone_arm_steps, tone_arm_sequence_index>>

ArmMove(t) == ArmLock(t) \/ ArmDelta(t) \/ step_tone_arm(t)

ArmProgress(t) == ArmMove(t) \/ ArmReturn(t)

NoLog == [num |-> -1, den |-> 1, pos |-> 0]

InitArm ==
    /\ tone_arm_steps = 0
    /\ tone_arm_sequence_index = 0
    /\ arm = [t \in ArmCallers |-> IdleFrame]
    /\ fracLog = NoLog

InitUncalibrated ==
    /\ record_start_steps = None
    /\ record_end_steps = None

\* ------------------------------------------------------------------------
\* Clock
\* ------------------------------------------------------------------------

InitClock == now = StartTime

\* time passes: d tenths of a second, up to the horizon
Tick(d, horizon) ==
    /\ now + d <= horizon
    /\ now' = now + d

\* ------------------------------------------------------------------------
\* playback_cooldown
\* ------------------------------------------------------------------------

\* the threads that call record_local_start: the button thread, its scan
\* sub-tasks, and the API thread of POST /api/playback/start
CoolCallers == {"button", "api"} \cup ScanThreads

\* no call in progress
IdleCool == [pc |-> "idle", reading |-> 0, raced |-> FALSE]

InitCooldown ==
    /\ last_local_start_monotonic = 0
    /\ rotation_scan_until = 0
    /\ cool = [t \in CoolCallers |-> IdleCool]

record_local_start_skipped ==
    UNCHANGED <<last_local_start_monotonic, rotation_scan_until, cool>>

\* record_local_start(), the clock reading and the assignment as one step
record_local_start ==
    /\ last_local_start_monotonic' = now
    /\ UNCHANGED <<rotation_scan_until, cool>>

\* record_local_start() one step at a time: thread t evaluates time.monotonic()
RecordRead(t) ==
    /\ cool[t].pc = "idle"
    /\ cool' = [cool EXCEPT ![t] = [pc |-> "store", reading |-> now, raced |-> FALSE]]
    /\ UNCHANGED <<last_local_start_monotonic, rotation_scan_until>>

RecordStoreUnmarked(t) ==
    /\ cool[t].pc = "store"
    /\ last_local_start_monotonic' = cool[t].reading
    /\ cool' = [cool EXCEPT ![t] = IdleCool]
    /\ UNCHANGED rotation_scan_until

\* thread t assigns its reading to the global; raced marks the calls in
\* progress that another call's assignment has overtaken
RecordStore(t) ==
    /\ cool[t].pc = "store"
    /\ last_local_start_monotonic' = cool[t].reading
    /\ cool' = [u \in CoolCallers |->
                  IF u = t THEN IdleCool
                  ELSE IF cool[u].pc = "store" THEN [cool[u] EXCEPT !.raced = TRUE]
                  ELSE cool[u]]
    /\ UNCHANGED rotation_scan_until

WithinCooldownInclusive == (now - last_local_start_monotonic) <= COOLDOWN_SEC

is_within_cooldown == (now - last_local_start_monotonic) < COOLDOWN_SEC

set_rotation_scan_until(monotonic_deadline) ==
    /\ rotation_scan_until' = monotonic_deadline
    /\ UNCHANGED <<last_local_start_monotonic, cool>>

is_rotation_scan_active == now < rotation_scan_until

\* ------------------------------------------------------------------------
\* MotorService: turntable
\* ------------------------------------------------------------------------

InitPlatter ==
    /\ turntable = [spinning |-> FALSE, direction |-> 1, current_speed |-> 0,
                    target_speed |-> 0, stop_requested |-> FALSE]
    /\ turntable_loop = [pc |-> "dead", target |-> 0, direction |-> 1]
    /\ pstart = [t \in PlatterCallers |-> FALSE]
    /\ pcreate = [t \in PlatterCallers |-> FALSE]
    /\ loop_threads = 0

\* get_turntable_state().is_spinning
is_spinning == turntable.spinning

\* get_turntable_state(): the four fields read in one block under the lock
get_turntable_state ==
    [is_spinning |-> turntable.spinning, direction |-> turntable.direction,
     current_speed |-> turntable.current_speed, target_speed |-> turntable.target_speed]

\* turntable_start, the block under the lock; thread t goes on to the thread
\* check unless the platter was already spinning
turntable_start(t, direction, target_speed) ==
    /\ ~pstart[t]
    /\ IF turntable.spinning
       THEN /\ turntable' = [turntable EXCEPT !.direction = 1,
                                              !.target_speed = target_speed]
            /\ UNCHANGED pstart
       ELSE /\ turntable' = [turntable EXCEPT !.stop_requested = FALSE,
                                              !.direction = 1,
                                              !.target_speed = target_speed,
                                              !.current_speed = target_speed,
                                              !.spinning = TRUE]
            /\ pstart' = [pstart EXCEPT ![t] = TRUE]
    /\ UNCHANGED <<turntable_loop, pcreate, loop_threads>>

IsAliveNever == FALSE

\* self._turntable_thread and self._turntable_thread.is_alive()
IsAlive == turntable_loop.pc # "dead"

\* a new loop thread is created and started; turntable_loop is the frame of
\* the thread self._turntable_thread refers to
NewLoopThread ==
    /\ turntable_loop' = [pc |-> "top", target |-> 0, direction |-> 1]
    /\ loop_threads' = loop_threads + 1

\* turntable_start, after the lock: return if the loop thread is alive, else
\* create and start it (the test and the start taken as one step)
TurntableStartThread(t) ==
    /\ pstart[t]
    /\ ~pcreate[t]
    /\ pstart' = [pstart EXCEPT ![t] = FALSE]
    /\ IF IsAlive THEN UNCHANGED <<turntable_loop, loop_threads>> ELSE NewLoopThread
    /\ UNCHANGED <<turntable, pcreate>>

\* the same lines one statement at a time: the is_alive() test
ThreadAliveTest(t) ==
    /\ pstart[t]
    /\ ~pcreate[t]
    /\ IF IsAlive
       THEN /\ pstart' = [pstart EXCEPT ![t] = FALSE]
            /\ UNCHANGED pcreate
       ELSE /\ pcreate' = [pcreate EXCEPT ![t] = TRUE]
            /\ UNCHANGED pstart
    /\ UNCHANGED <<turntable, turntable_loop, loop_threads>>

\* threading.Thread(target=self._turntable_loop).start(), whatever has
\* happened since the test
ThreadCreate(t) ==
    /\ pcreate[t]
    /\ NewLoopThread
    /\ pstart' = [pstart EXCEPT ![t] = FALSE]
    /\ pcreate' = [pcreate EXCEPT ![t] = FALSE]
    /\ UNCHANGED turntable

turntable_stop ==
    /\ turntable' = [turntable EXCEPT !.stop_requested = TRUE, !.target_speed = 0]
    /\ UNCHANGED <<turntable_loop, pstart, pcreate, loop_threads>>

LoopTopTorn ==
    /\ turntable_loop.pc = "top"
    /\ IF ~turntable.spinning \/ turntable.stop_requested
       THEN /\ turntable' = [turntable EXCEPT !.spinning = FALSE]
            /\ turntable_loop' = [turntable_loop EXCEPT !.pc = "finish"]
       ELSE /\ turntable_loop' = [pc |-> "ramp", target |-> turntable.target_speed,
                                  direction |-> turntable.direction]
            /\ UNCHANGED turntable
    /\ UNCHANGED <<pstart, pcreate, loop_threads>>

\* _turntable_loop: the first block under the lock
LoopTop ==
    /\ turntable_loop.pc = "top"
    /\ IF ~turntable.spinning \/ turntable.stop_requested
       THEN /\ turntable' = [turntable EXCEPT !.spinning = FALSE, !.current_speed = 0]
            /\ turntable_loop' = [turntable_loop EXCEPT !.pc = "exit"]
       ELSE /\ turntable_loop' = [pc |-> "ramp", target |-> turntable.target_speed,
                                  direction |-> turntable.direction]
            /\ UNCHANGED turntable
    /\ UNCHANGED <<pstart, pcreate, loop_threads>>

\* one iteration of "while current_speed < target" (ramp up)
LoopRamp ==
    /\ turntable_loop.pc = "ramp"
    /\ IF turntable.current_speed < turntable_loop.target /\ ~turntable.stop_requested
       THEN /\ turntable' = [turntable EXCEPT !.current_speed =
                               Min(turntable_loop.target, @ + ACCEL_DT)]
            /\ UNCHANGED turntable_loop
       ELSE /\ turntable_loop' = [turntable_loop EXCEPT !.pc = "maintain"]
            /\ UNCHANGED turntable
    /\ UNCHANGED <<pstart, pcreate, loop_threads>>

\* one iteration of the maintain loop
LoopMaintain ==
    /\ turntable_loop.pc = "maintain"
    /\ turntable_loop' =
         IF turntable.stop_requested \/ turntable.target_speed <= 0
         THEN [turntable_loop EXCEPT !.pc = "decel"]
         ELSE turntable_loop
    /\ UNCHANGED <<turntable, pstart, pcreate, loop_threads>>

\* one iteration of "while current_speed > 0" (decelerate)
LoopDecel ==
    /\ turntable_loop.pc = "decel"
    /\ IF turntable.current_speed > 0
       THEN /\ turntable' = [turntable EXCEPT !.current_speed = Max(0, @ - ACCEL_DT)]
            /\ UNCHANGED turntable_loop
       ELSE /\ turntable_loop' = [turntable_loop EXCEPT !.pc = "finish"]
            /\ UNCHANGED turntable
    /\ UNCHANGED <<pstart, pcreate, loop_threads>>

\* the last block under the lock
LoopFinish ==
    /\ turntable_loop.pc = "finish"
    /\ turntable' = [turntable EXCEPT !.spinning = FALSE, !.current_speed = 0]
    /\ turntable_loop' = [turntable_loop EXCEPT !.pc = "exit"]
    /\ UNCHANGED <<pstart, pcreate, loop_threads>>

\* the loop function returns and the thread is no longer alive
LoopExit ==
    /\ turntable_loop.pc = "exit"
    /\ turntable_loop' = [turntable_loop EXCEPT !.pc = "dead"]
    /\ loop_threads' = loop_threads - 1
    /\ UNCHANGED <<turntable, pstart, pcreate>>

turntable_loop_step ==
    LoopTop \/ LoopRamp \/ LoopMaintain \/ LoopDecel \/ LoopFinish \/ LoopExit

\* ------------------------------------------------------------------------
\* NFCService state
\* ------------------------------------------------------------------------

\* the poll thread before its first scan
IdlePoll == [pc |-> "scan", uid |-> None, wake |-> 0]

\* a service on real hardware: nothing read yet, no tag on the reader
InitNfc ==
    /\ nfc_current_uid = None
    /\ nfc_last_seen_time = None
    /\ nfc_simulate = FALSE
    /\ reader_tag = None
    /\ nfc_poll = IdlePoll

\* what scan_once() can return: the simulated uid, or on hardware the uid of
\* the tag on the reader or, when the read fails or there is no tag, None
ScanResults ==
    IF nfc_simulate THEN {nfc_current_uid}
    ELSE {None, reader_tag}

\* _poll_loop: uid = self.scan_once(), outside the lock
NfcScan ==
    /\ nfc_poll.pc = "scan"
    /\ \E uid \in ScanResults :
         nfc_poll' = [nfc_poll EXCEPT !.pc = "update", !.uid = uid]
    /\ UNCHANGED <<nfc_current_uid, nfc_last_seen_time, nfc_simulate, reader_tag>>

GraceExpiredInclusive(t, last_seen) == (t - last_seen) >= NFC_GRACE_SEC

\* (time.time() - self._last_seen_time) > _NFC_GRACE_SEC
GraceExpired(t, last_seen) == (t - last_seen) > NFC_GRACE_SEC

\* _poll_loop: the block under the lock, then time.sleep(interval_sec) begins
NfcUpdate ==
    /\ nfc_poll.pc = "update"
    /\ IF nfc_poll.uid # None
       THEN /\ nfc_current_uid' = nfc_poll.uid
            /\ nfc_last_seen_time' = Some(now)
       ELSE IF /\ nfc_current_uid # None
               /\ nfc_last_seen_time # None
               /\ GraceExpired(now, Get(nfc_last_seen_time))
            THEN /\ nfc_current_uid' = None
                 /\ nfc_last_seen_time' = None
            ELSE UNCHANGED <<nfc_current_uid, nfc_last_seen_time>>
    /\ nfc_poll' = [nfc_poll EXCEPT !.pc = "sleep", !.wake = now + NfcPollInterval]
    /\ UNCHANGED <<nfc_simulate, reader_tag>>

\* _poll_loop: time.sleep(interval_sec) is over
NfcWake ==
    /\ nfc_poll.pc = "sleep"
    /\ now >= nfc_poll.wake
    /\ nfc_poll' = [nfc_poll EXCEPT !.pc = "scan"]
    /\ UNCHANGED <<nfc_current_uid, nfc_last_seen_time, nfc_simulate, reader_tag>>

nfc_poll_loop == NfcScan \/ NfcUpdate \/ NfcWake

\* set_simulated_uid(uid): nothing unless simulating
set_simulated_uid(uid) ==
    /\ IF nfc_simulate
       THEN /\ nfc_current_uid' = uid
            /\ nfc_last_seen_time' = IF uid # None THEN Some(now) ELSE None
       ELSE UNCHANGED <<nfc_current_uid, nfc_last_seen_time>>
    /\ UNCHANGED <<nfc_simulate, reader_tag, nfc_poll>>

\* a record is put on the platter or taken off it
PlaceTag(u) ==
    /\ reader_tag = None
    /\ reader_tag' = Some(u)
    /\ UNCHANGED <<nfc_current_uid, nfc_last_seen_time, nfc_simulate, nfc_poll>>

RemoveTag ==
    /\ reader_tag # None
    /\ reader_tag' = None
    /\ UNCHANGED <<nfc_current_uid, nfc_last_seen_time, nfc_simulate, nfc_poll>>

\* ------------------------------------------------------------------------
\* playback_sync: sync_tone_arm_and_platter_to_playback, called by thread t
\* ------------------------------------------------------------------------

IdleSync ==
    [pc |-> "idle", reason |-> "", cmds |-> <<>>, snapshot |-> "",
     progress_ms |-> 0, duration_ms |-> 0, context_uri |-> None,
     track_index |-> 0, total_tracks |-> 1]

InitSync == sync = [t \in SyncCallers |-> IdleSync]

StopReasonsOfApiRoute ==
    {"no_spotify", "playback_error", "paused", "no_playback", "context_mismatch"}

\* the reasons for which the platter is stopped and the arm homed
StopReasons == {"no_spotify", "playback_error", "paused"}

\* the failed outcomes that leave the motors alone
TransientReasons ==
    {"cooldown", "no_playback", "no_nfc", "no_mapping", "context_mismatch",
     "context_position_unavailable", "rotation_scan"}

\* what get_spotify_client() and current_playback() gave
SnapshotKind(sp, pb) ==
    IF ~sp THEN "no_client"
    ELSE IF pb.kind = "error" THEN "error"
    ELSE IF pb.kind = "empty" THEN "empty"
    ELSE IF ~pb.is_playing THEN "paused"
    ELSE "playing"

FetchOutcomeIgnoringCooldown(kind, cooldown) ==
    CASE kind = "no_client" -> "no_spotify"
      [] kind = "error" -> "playback_error"
      [] kind = "empty" -> "no_playback"
      [] kind = "paused" -> "paused"
      [] OTHER -> "continue"

\* the outcome of the checks on the playback snapshot; "continue" goes on to
\* the tag
FetchOutcome(kind, cooldown) ==
    CASE kind = "no_client" -> IF cooldown THEN "cooldown" ELSE "no_spotify"
      [] kind = "error" -> IF cooldown THEN "cooldown" ELSE "playback_error"
      [] kind = "empty" -> "no_playback"
      [] kind = "paused" -> IF cooldown THEN "cooldown" ELSE "paused"
      [] OTHER -> "continue"

TagOutcomeWithoutTagCheck(uid, context_uri, ctx_pos) ==
    IF uid # None /\ MappingUri(Get(uid)) = None THEN "no_mapping"
    ELSE IF uid # None /\ (context_uri = None \/ context_uri # MappingUri(Get(uid)))
         THEN "context_mismatch"
    ELSE IF ctx_pos = None THEN "context_position_unavailable"
    ELSE "continue"

\* the outcome of the checks on the placed tag, its mapping, the playing
\* context and the track position
TagOutcome(uid, context_uri, ctx_pos) ==
    IF uid = None THEN "no_nfc"
    ELSE IF MappingUri(Get(uid)) = None THEN "no_mapping"
    ELSE IF context_uri = None \/ context_uri # MappingUri(Get(uid)) THEN "context_mismatch"
    ELSE IF ctx_pos = None THEN "context_position_unavailable"
    ELSE "continue"

FailedUnnamed(f, r) == [IdleSync EXCEPT !.pc = "done", !.snapshot = f.snapshot]

\* the call returns {"ok": False, "reason": r} without having touched a motor
Failed(f, r) == [IdleSync EXCEPT !.pc = "done", !.reason = r, !.snapshot = f.snapshot]

\* thread t enters sync_tone_arm_and_platter_to_playback
SyncCall(t) ==
    /\ sync[t].pc \in {"idle", "done"}
    /\ sync' = [sync EXCEPT ![t] = [IdleSync EXCEPT !.pc = "fetch"]]

\* _stop_platter_and_home as called by thread t
stop_platter_and_home(t) ==
    /\ turntable_stop
    /\ move_tone_arm_to_angle(t, 0)

\* get_spotify_client, current_playback, and the branches on the snapshot
SyncFetch(t) ==
    /\ sync[t].pc = "fetch"
    /\ \E sp \in BOOLEAN, pb \in Playbacks :
         LET kind == SnapshotKind(sp, pb)
             r    == FetchOutcome(kind, is_within_cooldown)
         IN  IF r \in StopReasons
             THEN /\ stop_platter_and_home(t)
                  /\ sync' = [sync EXCEPT ![t].pc = "arm", ![t].reason = r,
                                          ![t].snapshot = kind,
                                          ![t].cmds = <<"platter_stop", "arm_home">>]
             ELSE /\ UNCHANGED <<platVars, armVars>>
                  /\ IF r = "continue"
                     THEN sync' = [sync EXCEPT ![t].pc = "tag",
                                               ![t].snapshot = kind,
                                               ![t].context_uri = pb.context_uri,
                                               ![t].progress_ms = pb.progress_ms,
                                               ![t].duration_ms = pb.duration_ms]
                     ELSE sync' = [sync EXCEPT ![t].pc = "done", ![t].reason = r,
                                               ![t].snapshot = kind]

\* nfc_service.get_current(), the mapping, the context comparison and
\* get_context_track_position
SyncTag(t) ==
    /\ sync[t].pc = "tag"
    /\ \E ctx_pos \in CtxPositions :
         LET r == TagOutcome(nfc_current_uid, sync[t].context_uri, ctx_pos)
         IN  IF r \in StopReasons
             THEN /\ stop_platter_and_home(t)
                  /\ sync' = [sync EXCEPT ![t].pc = "arm", ![t].reason = r,
                                          ![t].cmds = <<"platter_stop", "arm_home">>]
             ELSE /\ UNCHANGED <<platVars, armVars>>
                  /\ IF r = "continue"
                     THEN sync' = [sync EXCEPT ![t].pc = "scan",
                                     ![t].track_index = Get(ctx_pos).track_index,
                                     ![t].total_tracks = Get(ctx_pos).total_tracks]
                     ELSE sync' = [sync EXCEPT ![t] = Failed(sync[t], r)]

\* if is_rotation_scan_active(): return rotation_scan
SyncScanCheck(t) ==
    /\ sync[t].pc = "scan"
    /\ sync' = IF is_rotation_scan_active
               THEN [sync EXCEPT ![t] = Failed(sync[t], "rotation_scan")]
               ELSE [sync EXCEPT ![t].pc = "start"]
    /\ UNCHANGED <<platVars, armVars>>

\* track_progress = clamp(position_ms / duration_ms), 0 when duration is 0;
\* playlist_fraction = clamp((track_index + track_progress) / total_tracks),
\* as the fraction FractionNum / FractionDen
FractionDen(f) == IF f.duration_ms > 0 THEN f.duration_ms * f.total_tracks ELSE f.total_tracks

FractionNumUnclamped(f) ==
    IF f.duration_ms > 0 THEN f.track_index * f.duration_ms + f.progress_ms
    ELSE f.track_index

FractionNum(f) ==
    LET raw == IF f.duration_ms > 0
               THEN f.track_index * f.duration_ms + Max(0, Min(f.duration_ms, f.progress_ms))
               ELSE f.track_index
    IN  Max(0, Min(FractionDen(f), raw))

\* motor_service.turntable_start(direction=-1), up to the end of its lock block
SyncStart(t) ==
    /\ sync[t].pc = "start"
    /\ turntable_start(t, -1, TURNTABLE_TARGET_STEPS_PER_SEC)
    /\ sync' = [sync EXCEPT ![t].pc = "spawn", ![t].cmds = Append(@, "platter_start")]
    /\ UNCHANGED armVars

\* the rest of turntable_start: the loop thread is created unless it is alive
SyncStartThread(t) ==
    /\ sync[t].pc = "spawn"
    /\ pstart[t]
    /\ TurntableStartThread(t)
    /\ UNCHANGED <<sync, armVars>>

\* motor_service.sync_tone_arm_to_fraction(playlist_fraction) is called
SyncArmFraction(t) ==
    /\ sync[t].pc = "spawn"
    /\ ~pstart[t]
    /\ sync_tone_arm_to_fraction(t, FractionNum(sync[t]), FractionDen(sync[t]))
    /\ sync' = [sync EXCEPT ![t].pc = "arm", ![t].reason = "ok",
                            ![t].cmds = Append(@, "arm_fraction")]
    /\ UNCHANGED platVars

\* the blocking arm move is over and the call returns its result
SyncReturn(t) ==
    /\ sync[t].pc = "arm"
    /\ ArmReturn(t)
    /\ sync' = [sync EXCEPT ![t].pc = "done"]
    /\ UNCHANGED platVars

\* the steps of a call in progress
SyncStep(t) ==
    \/ SyncFetch(t)
    \/ SyncTag(t)
    \/ SyncScanCheck(t)
    \/ SyncStart(t)
    \/ SyncStartThread(t)
    \/ SyncArmFraction(t)
    \/ SyncReturn(t)

\* ------------------------------------------------------------------------
\* button_service: the poll loop, _toggle_playback_for_current_record and the
\* scan sub-tasks
\* ------------------------------------------------------------------------

IdleButton ==
    [pc |-> "poll", last_press_time |-> 0, wake |-> 0, seen |-> "", cmds |-> <<>>,
     record_uri |-> None, is_playing |-> FALSE, tries |-> 0, failed |-> ""]

IdleScan == [pc |-> "dead", kind |-> "", start |-> 0, wake |-> 0, tries |-> 0]

InitButton ==
    /\ gpio_low = FALSE
    /\ toggles_in_hold = 0
    /\ button = IdleButton
    /\ rotation_scan_cooldown_until = 0
    /\ scan = [t \in ScanThreads |-> IdleScan]

\* the user pushes the button down, and lets it go
PressButton ==
    /\ ~gpio_low
    /\ gpio_low' = TRUE
    /\ toggles_in_hold' = 0
    /\ UNCHANGED <<button, rotation_scan_cooldown_until, scan>>

ReleaseButton ==
    /\ gpio_low
    /\ gpio_low' = FALSE
    /\ UNCHANGED <<toggles_in_hold, button, rotation_scan_cooldown_until, scan>>

DebouncedByPollInterval(t, last_press_time) == t - last_press_time >= POLL_INTERVAL_SEC

\* now - self._last_press_time >= DEBOUNCE_SEC
Debounced(t, last_press_time) == t - last_press_time >= DEBOUNCE_SEC

\* _poll_loop: one reading of the input; an accepted press enters toggle,
\* anything else goes to time.sleep(POLL_INTERVAL_SEC)
ButtonPoll ==
    /\ button.pc = "poll"
    /\ IF gpio_low /\ Debounced(now, button.last_press_time)
       THEN /\ button' = [button EXCEPT !.pc = "toggle", !.last_press_time = now,
                                        !.seen = "accepted", !.cmds = <<>>]
            /\ toggles_in_hold' = Min(toggles_in_hold + 1, MaxToggles)
       ELSE /\ button' = [button EXCEPT !.pc = "sleep",
                                        !.wake = now + POLL_INTERVAL_SEC,
                                        !.seen = IF gpio_low THEN "ignored" ELSE "high"]
            /\ UNCHANGED toggles_in_hold
    /\ UNCHANGED <<gpio_low, rotation_scan_cooldown_until, scan>>
    /\ UNCHANGED <<coolVars, platVars, armVars, syncVars>>

\* _poll_loop: time.sleep(POLL_INTERVAL_SEC) is over
ButtonWake ==
    /\ button.pc = "sleep"
    /\ now >= button.wake
    /\ button' = [button EXCEPT !.pc = "poll"]
    /\ UNCHANGED <<gpio_low, toggles_in_hold, rotation_scan_cooldown_until, scan>>
    /\ UNCHANGED <<coolVars, platVars, armVars, syncVars>>

ToggleEndsLoop(f) == [f EXCEPT !.pc = "ended"]

\* toggle returns (or raises into the loop's except) and the loop sleeps
ToggleReturn(f) ==
    [f EXCEPT !.pc = "sleep", !.wake = now + POLL_INTERVAL_SEC,
              !.record_uri = None, !.is_playing = FALSE, !.tries = 0]

FreeScanThreads ==
    {k \in 1 .. Len(ScanThreadOrder) :
        ScanThreadOrder[k] \in DOMAIN scan /\ scan[ScanThreadOrder[k]].pc = "dead"}

\* threading.Thread(target=...).start()
StartScanThread(target) ==
    /\ FreeScanThreads # {}
    /\ LET k == CHOOSE k \in FreeScanThreads : \A j \in FreeScanThreads : k <= j
       IN  scan' = [scan EXCEPT ![ScanThreadOrder[k]] =
                       [IdleScan EXCEPT !.pc = "begin", !.kind = target]]

\* _normalize_uri: the URIs of the model are stripped and in lower case
normalize_uri(uri) == IF uri = None THEN "" ELSE Get(uri)

\* _spotify_uri_id: uriA and uriB have different ids
spotify_uri_id(uri) ==
    IF uri = None THEN None
    ELSE IF Get(uri) = "uriA" THEN Some("idA") ELSE Some("idB")

ToggleRaisedGoesOn(f, what) ==
    [f EXCEPT !.failed = what, !.pc = "nap", !.wake = now + SettleSleep, !.tries = 0]

\* the external call named by what raised: the exception is caught in toggle
\* or by the except clause of the poll loop, and toggle is over; "" when
\* nothing raised
ToggleRaised(f, what) == [ToggleReturn(f) EXCEPT !.failed = what]

same_context(record_uri, current_context, is_playing) ==
    \/ normalize_uri(record_uri) # "" /\ normalize_uri(current_context) = normalize_uri(record_uri)
    \/ /\ spotify_uri_id(record_uri) # None
       /\ spotify_uri_id(current_context) # None
       /\ spotify_uri_id(record_uri) = spotify_uri_id(current_context)
    \/ is_playing /\ normalize_uri(record_uri) # "" /\ normalize_uri(current_context) = ""

\* toggle: nfc_service.get_current() and the branches without a mapped tag
ToggleNfc ==
    /\ button.pc = "toggle"
    /\ \E lookup_ok \in BOOLEAN :
       IF nfc_current_uid # None /\ ~lookup_ok
       THEN /\ button' = ToggleRaised(button, "mapping")
            /\ UNCHANGED <<rotation_scan_cooldown_until, scan, coolVars>>
       ELSE IF nfc_current_uid = None /\ is_spinning
       THEN /\ button' = [button EXCEPT !.pc = "np_fetch", !.failed = ""]
            /\ UNCHANGED <<rotation_scan_cooldown_until, scan, coolVars>>
       ELSE IF nfc_current_uid = None \/ MappingUri(Get(nfc_current_uid)) = None
       THEN /\ rotation_scan_cooldown_until' = now + scan_duration_sec
            /\ IF is_spinning
               THEN /\ StartScanThread("poll_nfc_while_spinning")
                    /\ UNCHANGED coolVars
               ELSE /\ set_rotation_scan_until(now + scan_duration_sec)
                    /\ StartScanThread("rotation_scan_for_nfc")
            /\ button' = ToggleRaised(button, "")
       ELSE /\ button' = [button EXCEPT !.pc = "fetch", !.failed = "",
                                        !.record_uri = MappingUri(Get(nfc_current_uid))]
            /\ UNCHANGED <<rotation_scan_cooldown_until, scan, coolVars>>
    /\ UNCHANGED <<gpio_low, toggles_in_hold, platVars, armVars, syncVars>>

\* toggle, no tag and the platter spinning: pause when something is playing,
\* else poll for a tag while spinning
ToggleNoTagFetch ==
    /\ button.pc = "np_fetch"
    /\ \E sp \in BOOLEAN, pb \in Playbacks, pause_ok \in BOOLEAN :
         IF sp /\ pb.kind = "pb" /\ pb.is_playing
         THEN /\ IF pause_ok
                 THEN /\ turntable_stop
                      /\ move_tone_arm_to_angle("button", 0)
                      /\ button' = [button EXCEPT !.pc = "home",
                                       !.cmds = <<"pause", "platter_stop", "arm_home">>]
                 ELSE /\ button' = [ToggleRaised(button, "pause") EXCEPT !.cmds = <<"pause">>]
                      /\ UNCHANGED <<platVars, armVars>>
              /\ UNCHANGED <<rotation_scan_cooldown_until, scan>>
         ELSE /\ rotation_scan_cooldown_until' = now + scan_duration_sec
              /\ StartScanThread("poll_nfc_while_spinning")
              /\ button' = IF sp /\ pb.kind = "error"
                            THEN ToggleRaised(button, "playback_read")
                            ELSE ToggleReturn(button)
              /\ UNCHANGED <<platVars, armVars>>
    /\ UNCHANGED <<gpio_low, toggles_in_hold, coolVars, syncVars>>

\* toggle with a mapped tag: the playback snapshot, then the pause branch or
\* the start branch up to the end of turntable_start's lock block
ToggleFetch ==
    /\ button.pc = "fetch"
    /\ \E sp \in BOOLEAN, pb \in Playbacks, start_ok \in BOOLEAN, pause_ok \in BOOLEAN :
         LET is_playing == pb.kind = "pb" /\ pb.is_playing
             current_context == IF pb.kind = "pb" THEN pb.context_uri ELSE None
         IN  IF ~sp \/ pb.kind = "error"
             THEN /\ button' = IF sp THEN ToggleRaised(button, "playback_read")
                                ELSE ToggleReturn(button)
                  /\ UNCHANGED <<platVars, armVars>>
             ELSE IF is_playing /\ same_context(button.record_uri, current_context, is_playing)
             THEN IF now < rotation_scan_cooldown_until
                  THEN /\ button' = ToggleReturn(button)
                       /\ UNCHANGED <<platVars, armVars>>
                  ELSE /\ turntable_stop
                       /\ move_tone_arm_to_angle("button", 0)
                       /\ button' = [button EXCEPT !.pc = "home",
                                        !.is_playing = is_playing,
                                        !.failed = IF pause_ok THEN "" ELSE "pause",
                                        !.cmds = <<"pause", "platter_stop", "arm_home">>]
             ELSE IF start_ok
                  THEN /\ turntable_start("button", 1, TURNTABLE_TARGET_STEPS_PER_SEC)
                       /\ button' = [button EXCEPT !.pc = "spawn",
                                        !.is_playing = is_playing,
                                        !.cmds = <<"play", "platter_start">>]
                       /\ UNCHANGED armVars
                  ELSE /\ button' = [ToggleRaised(button, "start") EXCEPT !.cmds = <<"play">>]
                       /\ UNCHANGED <<platVars, armVars>>
    /\ UNCHANGED <<gpio_low, toggles_in_hold, rotation_scan_cooldown_until, scan>>
    /\ UNCHANGED <<coolVars, syncVars>>

\* the blocking move_tone_arm_to_angle(0.0) is over and toggle returns
ToggleHomeReturn ==
    /\ button.pc = "home"
    /\ ArmReturn("button")
    /\ button' = ToggleReturn(button)
    /\ UNCHANGED <<gpio_low, toggles_in_hold, rotation_scan_cooldown_until, scan>>
    /\ UNCHANGED <<coolVars, platVars, syncVars>>

\* a motor step of the blocking move_tone_arm_to_angle(0.0) raises: the move
\* is abandoned where it stands, the exception is caught and toggle is over
ToggleHomeFailed ==
    /\ button.pc = "home"
    /\ arm["button"].pc = "step"
    /\ arm' = [arm EXCEPT !["button"] = IdleFrame]
    /\ button' = ToggleRaised(button, "arm")
    /\ UNCHANGED <<tone_arm_steps, tone_arm_sequence_index, fracLog>>
    /\ UNCHANGED <<gpio_low, toggles_in_hold, rotation_scan_cooldown_until, scan>>
    /\ UNCHANGED <<coolVars, platVars, syncVars>>

\* the rest of turntable_start, record_local_start(), time.sleep(0.4) begins
ToggleStarted ==
    /\ button.pc = "spawn"
    /\ IF pstart["button"] THEN TurntableStartThread("button") ELSE UNCHANGED platVars
    /\ record_local_start
    /\ button' = [button EXCEPT !.pc = "nap", !.wake = now + SettleSleep, !.tries = 0]
    /\ UNCHANGED <<gpio_low, toggles_in_hold, rotation_scan_cooldown_until, scan>>
    /\ UNCHANGED <<armVars, syncVars>>

\* a sleep is over: the next sync attempt begins, or after the last one the
\* caller goes on
NapOver(f, t) ==
    /\ f.pc = "nap"
    /\ now >= f.wake
    /\ IF f.tries = SyncAttempts THEN UNCHANGED sync ELSE SyncCall(t)

\* the sync call has returned: its result is read
SyncResult(f, t) ==
    /\ f.pc = "sync"
    /\ sync[t].pc = "done"
    /\ sync' = [sync EXCEPT ![t] = IdleSync]

ToggleNapOver ==
    /\ NapOver(button, "button")
    /\ button' = IF button.tries = SyncAttempts THEN ToggleReturn(button)
                 ELSE [button EXCEPT !.pc = "sync"]
    /\ UNCHANGED <<gpio_low, toggles_in_hold, rotation_scan_cooldown_until, scan>>
    /\ UNCHANGED <<coolVars, platVars, armVars>>

ToggleSyncResult ==
    /\ SyncResult(button, "button")
    /\ button' = IF sync["button"].reason = "ok" THEN ToggleReturn(button)
                 ELSE [button EXCEPT !.pc = "nap", !.wake = now + RetrySleep,
                                     !.tries = @ + 1]
    /\ UNCHANGED <<gpio_low, toggles_in_hold, rotation_scan_cooldown_until, scan>>
    /\ UNCHANGED <<coolVars, platVars, armVars>>

toggle_playback_for_current_record ==
    \/ ToggleNfc
    \/ ToggleNoTagFetch
    \/ ToggleFetch
    \/ ToggleHomeReturn
    \/ ToggleHomeFailed
    \/ ToggleStarted
    \/ ToggleNapOver
    \/ ToggleSyncResult

button_poll_loop == ButtonPoll \/ ButtonWake \/ toggle_playback_for_current_record

\* a scan thread starts running: _rotation_scan_for_nfc calls turntable_start,
\* _poll_nfc_while_spinning notes its start time
ScanBegin(t) ==
    /\ scan[t].pc = "begin"
    /\ IF scan[t].kind = "rotation_scan_for_nfc"
       THEN /\ turntable_start(t, -1, TURNTABLE_TARGET_STEPS_PER_SEC)
            /\ scan' = [scan EXCEPT ![t].pc = "spawn"]
       ELSE /\ scan' = [scan EXCEPT ![t].pc = "loop", ![t].start = now]
            /\ UNCHANGED platVars
    /\ UNCHANGED <<rotation_scan_cooldown_until, coolVars, syncVars>>

\* _rotation_scan_for_nfc: the rest of turntable_start, start = time.monotonic()
ScanStarted(t) ==
    /\ scan[t].pc = "spawn"
    /\ IF pstart[t] THEN TurntableStartThread(t) ELSE UNCHANGED platVars
    /\ scan' = [scan EXCEPT ![t].pc = "loop", ![t].start = now]
    /\ UNCHANGED <<rotation_scan_cooldown_until, coolVars, syncVars>>

\* while time.monotonic() - start < scan_duration_sec: sleep; else stop the platter
ScanLoop(t) ==
    /\ scan[t].pc = "loop"
    /\ IF now - scan[t].start < scan_duration_sec
       THEN /\ scan' = [scan EXCEPT ![t].pc = "sleep",
                                    ![t].wake = now + NFC_SCAN_INTERVAL_SEC]
            /\ UNCHANGED platVars
       ELSE /\ turntable_stop
            /\ scan' = [scan EXCEPT ![t] = IdleScan]
    /\ UNCHANGED <<rotation_scan_cooldown_until, coolVars, syncVars>>

\* the scan reads the tag; with a mapped tag _on_nfc_tag_found starts playback
ScanRead(t) ==
    /\ scan[t].pc = "sleep"
    /\ now >= scan[t].wake
    /\ IF nfc_current_uid = None \/ MappingUri(Get(nfc_current_uid)) = None
       THEN /\ scan' = [scan EXCEPT ![t].pc = "loop"]
            /\ UNCHANGED <<rotation_scan_cooldown_until, coolVars>>
       ELSE \E sp \in BOOLEAN, start_ok \in BOOLEAN :
              IF sp /\ start_ok
              THEN /\ record_local_start
                   /\ rotation_scan_cooldown_until' = now + ShortenedCooldown
                   /\ scan' = [scan EXCEPT ![t].pc = "nap", ![t].wake = now + SettleSleep,
                                           ![t].tries = 0]
              ELSE /\ scan' = [scan EXCEPT ![t] = IdleScan]
                   /\ UNCHANGED <<rotation_scan_cooldown_until, coolVars>>
    /\ UNCHANGED <<platVars, syncVars>>

ScanNapOver(t) ==
    /\ NapOver(scan[t], t)
    /\ scan' = IF scan[t].tries = SyncAttempts THEN [scan EXCEPT ![t] = IdleScan]
               ELSE [scan EXCEPT ![t].pc = "sync"]
    /\ UNCHANGED <<rotation_scan_cooldown_until, coolVars, platVars>>

ScanSyncResult(t) ==
    /\ SyncResult(scan[t], t)
    /\ scan' = IF sync[t].reason = "ok" THEN [scan EXCEPT ![t] = IdleScan]
               ELSE [scan EXCEPT ![t].pc = "nap", ![t].wake = now + RetrySleep,
                                 ![t].tries = @ + 1]
    /\ UNCHANGED <<rotation_scan_cooldown_until, coolVars, platVars>>

\* the steps of scan thread t
scan_thread(t) ==
    /\ \/ ScanBegin(t)
       \/ ScanStarted(t)
       \/ ScanLoop(t)
       \/ ScanRead(t)
       \/ ScanNapOver(t)
       \/ ScanSyncResult(t)
    /\ UNCHANGED <<gpio_low, toggles_in_hold, button, armVars>>

\* ------------------------------------------------------------------------
\* SpecArm: the tone-arm commanded concurrently by the periodic sync loop
\* (home, fraction), the button thread (home) and API callers (any command)
\* ------------------------------------------------------------------------

\* API commands while other threads move the arm: relative or absolute, to
\* either end of the arc
ApiToneArmConcurrent ==
    \E s \in {-TONE_ARM_MAX_STEPS, TONE_ARM_MAX_STEPS}, a \in BOOLEAN :
        move_tone_arm("api", s, a, FALSE)

ApiToneArm ==
    \/ \E s \in StepArgs, a \in BOOLEAN : move_tone_arm("api", s, a, FALSE)
    \/ \E s \in StepArgs : move_tone_arm("api", s, FALSE, TRUE)
    \/ \E g \in Angles : move_tone_arm_to_angle("api", g)
    \/ \E k \in Fractions : sync_tone_arm_to_fraction("api", k, FracDen)

SyncToneArm ==
    \/ move_tone_arm_to_angle("sync", 0)
    \/ \E k \in Fractions : sync_tone_arm_to_fraction("sync", k, FracDen)

ButtonToneArm == move_tone_arm_to_angle("button", 0)

ArmStepAny == \E t \in ArmCallers : ArmProgress(t)

InitRest == InitClock /\ InitCooldown /\ InitPlatter /\ InitNfc /\ InitSync /\ InitButton

InitSpecArm == InitArm /\ InitUncalibrated /\ InitRest

NextArm ==
    \/ ApiToneArmConcurrent /\ UNCHANGED nonArmVars
    \/ SyncToneArm /\ UNCHANGED nonArmVars
    \/ ButtonToneArm /\ UNCHANGED nonArmVars
    \/ ArmStepAny /\ UNCHANGED nonArmVars

SpecArm == InitSpecArm /\ [][NextArm]_vars

\* C1: in every reachable state steps_from_home lies in
\* [-TONE_ARM_MAX_STEPS, TONE_ARM_MAX_STEPS], whatever the interleaving of the
\* tone-arm commands of the sync loop, the button thread and API callers.
C1_StepsFromHomeClamped ==
    /\ steps_from_home >= -TONE_ARM_MAX_STEPS
    /\ steps_from_home <= TONE_ARM_MAX_STEPS

\* ------------------------------------------------------------------------
\* SpecArmSeq: a single caller issuing every tone-arm command, no calibration
\* ------------------------------------------------------------------------

NextArmSeq ==
    \/ ApiToneArm /\ UNCHANGED nonArmVars
    \/ ArmProgress("api") /\ UNCHANGED nonArmVars

SpecArmSeq == InitSpecArm /\ [][NextArmSeq]_vars

\* C6: with a single caller, an absolute move_tone_arm(target) issues exactly
\* |clamp(target) - current| steps (none when that is zero) and returns with
\* steps_from_home = clamp(target): the steps still to issue always equal the
\* distance left to the clamped target, and at the return every step was issued.
C6_MoveToExact ==
    \A t \in ArmCallers :
        (arm[t].op = "absolute" /\ arm[t].pc \in {"step", "return"}) =>
            /\ arm[t].n - arm[t].i = Abs(ClampSteps(arm[t].steps) - steps_from_home)
            /\ arm[t].pc = "return" =>
                  /\ arm[t].i = arm[t].n
                  /\ steps_from_home = ClampSteps(arm[t].steps)

\* an absolute move beyond the arc has issued all its steps and is returning
C6_Witness ==
    /\ arm["api"].op = "absolute"
    /\ arm["api"].pc = "return"
    /\ arm["api"].steps = TONE_ARM_MAX_STEPS + StepOvershoot
    /\ arm["api"].i = 2 * TONE_ARM_MAX_STEPS

\* ------------------------------------------------------------------------
\* SpecFraction: a single caller of sync_tone_arm_to_fraction, any calibration
\* of the playable arc within the arm's range
\* ------------------------------------------------------------------------

InitSpecFraction ==
    /\ InitArm
    /\ InitRest
    /\ record_start_steps \in CalibValues
    /\ record_end_steps \in CalibValues

NextFraction ==
    \/ (\E k \in Fractions : sync_tone_arm_to_fraction("api", k, FracDen)) /\ UNCHANGED nonArmVars
    \/ ArmMove("api") /\ UNCHANGED nonArmVars
    \/ ArmReturnLogged("api") /\ UNCHANGED nonArmVars

SpecFraction == InitSpecFraction /\ [][NextFraction]_vars

\* num1/den1 <= num2/den2
FracLeq(num1, den1, num2, den2) == num1 * den2 <= num2 * den1

\* C7: for every fraction f in [0,1], sync_tone_arm_to_fraction(f) returns with
\* steps_from_home within the calibrated arc between start_step and end_step,
\* and when end_step > start_step a larger f never gives a smaller position
\* than the preceding call gave.
C7_FractionWithinArcMonotonic ==
    \A t \in ArmCallers :
        (/\ arm[t].op = "fraction"
         /\ arm[t].pc = "return"
         /\ arm[t].num >= 0
         /\ arm[t].num <= arm[t].den) =>
            /\ steps_from_home >= Min(start_step, end_step)
            /\ steps_from_home <= Max(start_step, end_step)
            /\ (fracLog.num >= 0 /\ end_step > start_step) =>
                  /\ FracLeq(fracLog.num, fracLog.den, arm[t].num, arm[t].den)
                        => fracLog.pos <= steps_from_home
                  /\ FracLeq(arm[t].num, arm[t].den, fracLog.num, fracLog.den)
                        => steps_from_home <= fracLog.pos

\* on a calibrated arc, a call with a larger fraction than the preceding one
\* has moved the arm further out
C7_Witness ==
    /\ record_start_steps = Some(-1)
    /\ record_end_steps = Some(TONE_ARM_MAX_STEPS)
    /\ arm["api"].op = "fraction"
    /\ arm["api"].pc = "return"
    /\ fracLog.num >= 0
    /\ fracLog.num < arm["api"].num
    /\ fracLog.pos < steps_from_home

\* ------------------------------------------------------------------------
\* SpecSync: the periodic sync loop against an arbitrary streaming service,
\* with the cooldown windows written by the API and the button, the platter
\* commanded through the API, and a tag that is absent, mapped or unmapped
\* ------------------------------------------------------------------------

\* the clock of SpecSync advances by this much at a time
SyncTick == 300

\* SpecSync runs until this time
SyncHorizon == 900

InitSpecSync ==
    /\ InitArm
    /\ InitUncalibrated
    /\ InitClock
    /\ InitCooldown
    /\ InitPlatter
    /\ InitSync
    /\ InitButton
    /\ nfc_current_uid \in {None} \cup {Some(u) : u \in UIDs}
    /\ nfc_last_seen_time = IF nfc_current_uid = None THEN None ELSE Some(now)
    /\ nfc_simulate = FALSE
    /\ reader_tag = nfc_current_uid
    /\ nfc_poll = IdlePoll

\* app._playback_sync_loop: the interval is over, the next call begins
PlaybackSyncLoop ==
    /\ SyncCall("sync")
    /\ UNCHANGED <<armVars, calibVars, clockVars, coolVars, platVars, nfcVars, buttonVars>>

\* POST /api/playback/start succeeded: record_local_start()
ApiPlaybackStart ==
    /\ record_local_start
    /\ UNCHANGED <<armVars, calibVars, clockVars, platVars, nfcVars, buttonVars, syncVars>>

\* toggle opens the rotation-scan window for a scan it starts:
\* set_rotation_scan_until(time.monotonic() + scan_duration_sec); the button
\* thread and its scan are run in full in SpecButton
ButtonRotationScanWindow ==
    /\ set_rotation_scan_until(now + scan_duration_sec)
    /\ UNCHANGED <<armVars, calibVars, clockVars, platVars, nfcVars, buttonVars, syncVars>>

\* POST /api/motors/turntable/start, up to the end of the lock block
ApiTurntableStart ==
    /\ \E d \in {1, -1} : turntable_start("api", d, TURNTABLE_TARGET_STEPS_PER_SEC)
    /\ UNCHANGED <<armVars, calibVars, clockVars, coolVars, nfcVars, buttonVars, syncVars>>

\* POST /api/motors/turntable/stop
ApiTurntableStop ==
    /\ turntable_stop
    /\ UNCHANGED <<armVars, calibVars, clockVars, coolVars, nfcVars, buttonVars, syncVars>>

NextSync ==
    \/ PlaybackSyncLoop
    \/ SyncStep("sync") /\ UNCHANGED <<calibVars, clockVars, coolVars, nfcVars, buttonVars>>
    \/ ArmMove("sync") /\ UNCHANGED nonArmVars
    \/ TurntableStartThread("api")
         /\ UNCHANGED <<armVars, calibVars, clockVars, coolVars, nfcVars, buttonVars, syncVars>>
    \/ turntable_loop_step
         /\ UNCHANGED <<armVars, calibVars, clockVars, coolVars, nfcVars, buttonVars, syncVars>>
    \/ Tick(SyncTick, SyncHorizon)
         /\ UNCHANGED <<armVars, calibVars, coolVars, platVars, nfcVars, buttonVars, syncVars>>
    \/ ApiPlaybackStart
    \/ ButtonRotationScanWindow
    \/ ApiTurntableStart
    \/ ApiTurntableStop

SpecSync == InitSpecSync /\ [][NextSync]_vars

\* the motor commands of a call, as a set
Commands(f) == {f.cmds[k] : k \in 1 .. Len(f.cmds)}

motorVars == <<tone_arm_steps, arm, turntable, turntable_loop, pstart>>

\* C2: while the rotation-scan window is active no step of a sync call issues
\* a motor command (platter start, platter stop or arm move), whatever the
\* playback state and the tag.
C2_NoCommandDuringRotationScan ==
    [][\A t \in SyncCallers :
          is_rotation_scan_active => Len(sync'[t].cmds) <= Len(sync[t].cmds)]_vars

C3_OnlyAuthoritativeStops ==
    \A t \in SyncCallers :
        /\ sync[t].reason \in {"cooldown", "no_playback", "no_nfc", "no_mapping",
                               "context_mismatch", "context_position_unavailable",
                               "rotation_scan"}
              => sync[t].cmds = <<>>
        /\ (Commands(sync[t]) \cap {"platter_stop", "arm_home"}) # {}
              => sync[t].reason \in {"no_spotify", "playback_error", "paused"}

C3_TransientLeavesMotors ==
    \A t \in SyncCallers :
        (/\ sync'[t] # sync[t]
         /\ sync'[t].reason \in {"cooldown", "no_playback", "no_nfc", "no_mapping",
                                 "context_mismatch", "context_position_unavailable",
                                 "rotation_scan"})
            => UNCHANGED motorVars

\* C3: a sync call issues platter-stop and arm-home only with the outcomes
\* no_spotify, playback_error and paused; with any other failed outcome it has
\* issued no motor command, and the step that decides that outcome leaves the
\* platter and the arm as they were.
C3_TransientVsAuthoritative ==
    []C3_OnlyAuthoritativeStops /\ [][C3_TransientLeavesMotors]_vars

\* after a mismatch the platter still spins and the arm is still out on the record
C3_Witness ==
    /\ sync["sync"].pc = "done"
    /\ sync["sync"].reason = "context_mismatch"
    /\ turntable.spinning
    /\ turntable_loop.pc = "maintain"
    /\ steps_from_home > 0

C4_PausedOutcome ==
    \A t \in SyncCallers :
        sync[t].snapshot = "paused" =>
            \/ sync[t].reason = "paused" /\ sync[t].cmds = <<"platter_stop", "arm_home">>
            \/ sync[t].reason = "cooldown" /\ sync[t].cmds = <<>>

C4_PausedDecision ==
    \A t \in SyncCallers :
        (sync[t].pc = "fetch" /\ sync'[t].snapshot = "paused") =>
            IF is_within_cooldown
            THEN /\ sync'[t].reason = "cooldown"
                 /\ sync'[t].pc = "done"
                 /\ UNCHANGED motorVars
            ELSE /\ sync'[t].reason = "paused"
                 /\ turntable'.stop_requested
                 /\ turntable'.target_speed = 0
                 /\ arm'[t].pc = "lock"
                 /\ arm'[t].absolute
                 /\ arm'[t].steps = 0

\* C4: with a snapshot reporting is_playing=false, a sync call outside the
\* local-start cooldown issues exactly one platter stop and one arm-home and
\* reports paused; inside the cooldown it issues no motor command and reports
\* cooldown.
C4_PausedStopsOnceOrCooldown ==
    []C4_PausedOutcome /\ [][C4_PausedDecision]_vars

\* a paused snapshot outside the cooldown has stopped a spinning platter and
\* brought the arm home from the record
C4_Witness ==
    /\ sync["sync"].pc = "done"
    /\ sync["sync"].snapshot = "paused"
    /\ sync["sync"].reason = "paused"
    /\ last_local_start_monotonic > 0
    /\ ~is_within_cooldown
    /\ turntable.stop_requested
    /\ turntable.target_speed = 0
    /\ steps_from_home = 0

\* C5 as stated: with no tag present a sync call issues no motor command,
\* whatever the platter state and the playback state.
C5_NoTagNoCommand ==
    nfc_current_uid = None => \A t \in SyncCallers : sync[t].cmds = <<>>

\* C5 amended: with no tag present a sync call never starts the platter or
\* moves the arm to a fraction; the only commands it can issue are the platter
\* stop and arm home of an authoritative stop, and with playback playing it
\* reports no_nfc and issues none.
C5_NoTagOnlyAuthoritativeStop ==
    nfc_current_uid = None =>
        \A t \in SyncCallers :
            /\ \/ sync[t].cmds = <<>>
               \/ /\ sync[t].cmds = <<"platter_stop", "arm_home">>
                  /\ sync[t].reason \in {"no_spotify", "playback_error", "paused"}
            /\ (sync[t].pc = "done" /\ sync[t].snapshot = "playing")
                  => sync[t].reason = "no_nfc"

\* no tag, playback playing, the platter spinning: the call has returned no_nfc
\* and the platter spins on
C5_Witness ==
    /\ nfc_current_uid = None
    /\ sync["sync"].pc = "done"
    /\ sync["sync"].snapshot = "playing"
    /\ sync["sync"].reason = "no_nfc"
    /\ turntable.spinning
    /\ ~turntable.stop_requested
    /\ turntable_loop.pc = "maintain"

\* ------------------------------------------------------------------------
\* SpecNfc: the presence poll loop, on hardware (tags come and go, reads can
\* fail) and simulated (uids are injected through the API)
\* ------------------------------------------------------------------------

NfcTick == 10

NfcHorizon == 500

InitSpecNfc ==
    /\ InitArm
    /\ InitUncalibrated
    /\ InitClock
    /\ InitCooldown
    /\ InitPlatter
    /\ InitSync
    /\ InitButton
    /\ nfc_current_uid = None
    /\ nfc_last_seen_time = None
    /\ nfc_simulate \in BOOLEAN
    /\ reader_tag = None
    /\ nfc_poll = IdlePoll

nonNfcVars == <<armVars, calibVars, clockVars, coolVars, platVars, syncVars, buttonVars>>

\* POST /api/nfc/simulate
ApiSimulateUid == \E uid \in {None} \cup {Some(u) : u \in UIDs} : set_simulated_uid(uid)

NextNfc ==
    \/ nfc_poll_loop /\ UNCHANGED nonNfcVars
    \/ ApiSimulateUid /\ UNCHANGED nonNfcVars
    \/ (\E u \in UIDs : PlaceTag(u)) /\ UNCHANGED nonNfcVars
    \/ RemoveTag /\ UNCHANGED nonNfcVars
    \/ Tick(NfcTick, NfcHorizon)
         /\ UNCHANGED <<armVars, calibVars, coolVars, platVars, nfcVars, buttonVars, syncVars>>

SpecNfc == InitSpecNfc /\ [][NextNfc]_vars

\* the poll loop processes a missed read
MissedRead == nfc_poll.pc = "update" /\ nfc_poll'.pc = "sleep" /\ nfc_poll.uid = None

C8_MissWithinGraceKeeps ==
    (/\ MissedRead
     /\ nfc_last_seen_time # None
     /\ now - Get(nfc_last_seen_time) <= NFC_GRACE_SEC)
        => /\ nfc_current_uid' = nfc_current_uid
           /\ nfc_last_seen_time' = nfc_last_seen_time

C8_MissBeyondGraceClears ==
    (/\ MissedRead
     /\ nfc_last_seen_time # None
     /\ now - Get(nfc_last_seen_time) > NFC_GRACE_SEC)
        => /\ nfc_current_uid' = None
           /\ nfc_last_seen_time' = None

C8_LoopClearsOnlyThen ==
    (/\ nfc_poll' # nfc_poll
     /\ nfc_current_uid # None
     /\ nfc_current_uid' = None)
        => /\ MissedRead
           /\ nfc_last_seen_time # None
           /\ now - Get(nfc_last_seen_time) > NFC_GRACE_SEC

\* the time of the last successful read is known exactly while a uid is reported
C8_LastSeenKnown ==
    /\ (nfc_current_uid # None) <=> (nfc_last_seen_time # None)
    /\ nfc_last_seen_time # None => Get(nfc_last_seen_time) <= now

\* C8: in the presence poll loop a missed read processed no more than
\* NFC_GRACE_SEC after the last successful read leaves the current uid (and
\* the time of that read) unchanged, a missed read processed more than
\* NFC_GRACE_SEC after it clears the uid, and no other step of the loop
\* clears the uid.
C8_GraceWindow ==
    /\ []C8_LastSeenKnown
    /\ [][C8_MissWithinGraceKeeps /\ C8_MissBeyondGraceClears /\ C8_LoopClearsOnlyThen]_vars

\* on hardware, a read has just been missed late in the grace window of the
\* last successful one, and the uid is still reported
C8_Witness ==
    /\ ~nfc_simulate
    /\ nfc_poll.pc = "sleep"
    /\ nfc_poll.uid = None
    /\ nfc_poll.wake = now + NfcPollInterval
    /\ nfc_current_uid # None
    /\ nfc_last_seen_time # None
    /\ now - Get(nfc_last_seen_time) <= NFC_GRACE_SEC
    /\ now - Get(nfc_last_seen_time) > NFC_GRACE_SEC - NfcPollInterval

\* ------------------------------------------------------------------------
\* SpecButton: the button poll loop with its toggle and scan sub-tasks, the
\* user pressing and releasing the button, against an arbitrary streaming
\* service, with a tag that is absent, mapped or unmapped
\* ------------------------------------------------------------------------

ButtonTick == 20

ButtonHorizon == 400

\* the scan threads that can be alive at once in SpecButton
ButtonScanThreads == {ScanThreadOrder[1]}

InitSpecButton ==
    /\ InitArm
    /\ InitUncalibrated
    /\ InitClock
    /\ InitCooldown
    /\ InitPlatter
    /\ InitSync
    /\ gpio_low = FALSE
    /\ toggles_in_hold = 0
    /\ button = IdleButton
    /\ rotation_scan_cooldown_until = 0
    /\ scan = [t \in ButtonScanThreads |-> IdleScan]
    /\ nfc_current_uid \in {None} \cup {Some(u) : u \in UIDs}
    /\ nfc_last_seen_time = IF nfc_current_uid = None THEN None ELSE Some(now)
    /\ nfc_simulate = FALSE
    /\ reader_tag = nfc_current_uid
    /\ nfc_poll = IdlePoll

ButtonSideThreads == {"button"} \cup ButtonScanThreads

NextButton ==
    \/ PressButton
         /\ UNCHANGED <<armVars, calibVars, clockVars, coolVars, platVars, nfcVars, syncVars>>
    \/ ReleaseButton
         /\ UNCHANGED <<armVars, calibVars, clockVars, coolVars, platVars, nfcVars, syncVars>>
    \/ button_poll_loop /\ UNCHANGED <<calibVars, clockVars, nfcVars>>
    \/ (\E t \in ButtonScanThreads : scan_thread(t)) /\ UNCHANGED <<calibVars, clockVars, nfcVars>>
    \/ (\E t \in ButtonSideThreads : SyncStep(t))
         /\ UNCHANGED <<calibVars, clockVars, coolVars, nfcVars, buttonVars>>
    \/ (\E t \in ButtonSideThreads : ArmMove(t)) /\ UNCHANGED nonArmVars
    \/ turntable_loop_step
         /\ UNCHANGED <<armVars, calibVars, clockVars, coolVars, nfcVars, syncVars, buttonVars>>
    \/ Tick(ButtonTick, ButtonHorizon)
         /\ UNCHANGED <<armVars, calibVars, coolVars, platVars, nfcVars, syncVars, buttonVars>>

SpecButton == InitSpecButton /\ [][NextButton]_vars

\* the poll loop observes the button down less than DEBOUNCE_SEC after the
\* last accepted press
C9_ObservedWithinDebounce ==
    /\ button.pc = "poll"
    /\ button' # button
    /\ gpio_low
    /\ now - button.last_press_time < DEBOUNCE_SEC

C9_Ignored ==
    C9_ObservedWithinDebounce =>
        /\ button'.pc = "sleep"
        /\ button'.seen = "ignored"
        /\ button'.last_press_time = button.last_press_time
        /\ toggles_in_hold' = toggles_in_hold
        /\ UNCHANGED <<coolVars, platVars, armVars, syncVars, rotation_scan_cooldown_until, scan>>

C9_AcceptedOnlyDebounced ==
    (button'.pc = "toggle" /\ button.pc # "toggle") =>
        /\ gpio_low
        /\ now - button.last_press_time >= DEBOUNCE_SEC
        /\ button'.last_press_time = now

C9_PressTimeOnlyOnAccept ==
    button'.last_press_time # button.last_press_time => button'.pc = "toggle"

\* C9: of two activations observed by the poll loop less than DEBOUNCE_SEC
\* apart only the first calls toggle: the second changes nothing, the
\* last-accepted-press time included; toggle is entered only at least
\* DEBOUNCE_SEC after the last accepted press, which alone sets that time.
C9_DebounceIgnoresSecond ==
    [][C9_Ignored /\ C9_AcceptedOnlyDebounced /\ C9_PressTimeOnlyOnAccept]_vars

\* a second activation (no toggle call in it) has just been observed and
\* ignored, less than DEBOUNCE_SEC after an accepted press
C9_Witness ==
    /\ gpio_low
    /\ toggles_in_hold = 0
    /\ button.pc = "sleep"
    /\ button.seen = "ignored"
    /\ button.wake = now + POLL_INTERVAL_SEC
    /\ button.last_press_time >= StartTime
    /\ now - button.last_press_time < DEBOUNCE_SEC

\* C10: one continuous activation of the button input, however long, makes the
\* poll loop call toggle exactly once (a press is an inactive-to-active
\* transition).
C10_OneToggleEachActivation == toggles_in_hold <= 1

\* toggle is on its start branch after a snapshot with is_playing=false and a
\* start request that succeeded
InStartBranch ==
    /\ button.pc \in {"spawn", "nap", "sync"}
    /\ button.cmds = <<"play", "platter_start">>
    /\ ~button.is_playing

\* C11: with a mapped tag and playback reporting is_playing=false, an accepted
\* press whose start request succeeds requests the start once, leaves the
\* platter spinning with direction +1, records the local-start cooldown, and
\* makes at most two sync attempts, stopping at the first ok result, whose
\* fraction is that of the external track index and position.
C11_StartEndToEnd ==
    InStartBranch =>
        /\ turntable.spinning
        /\ turntable.direction = 1
        /\ button.pc # "spawn" => last_local_start_monotonic >= button.last_press_time
        /\ button.tries <= SyncAttempts
        /\ button.pc = "sync" => button.tries < SyncAttempts
        /\ (sync["button"].pc = "done" /\ sync["button"].reason = "ok") =>
              sync["button"].cmds = <<"platter_start", "arm_fraction">>

\* ------------------------------------------------------------------------
\* SpecPress: the button with a mapped tag on the reader, the platter also
\* commanded through the API, every thread scheduled fairly
\* ------------------------------------------------------------------------

PressHorizon == 360

InitSpecPress ==
    /\ InitSpecButton
    /\ nfc_current_uid # None
    /\ MappingUri(Get(nfc_current_uid)) # None

PressButtonThread == button_poll_loop /\ UNCHANGED <<calibVars, clockVars, nfcVars>>

PressSyncStep ==
    SyncStep("button") /\ UNCHANGED <<calibVars, clockVars, coolVars, nfcVars, buttonVars>>

PressArmMove == ArmMove("button") /\ UNCHANGED nonArmVars

PressLoopThread ==
    turntable_loop_step
      /\ UNCHANGED <<armVars, calibVars, clockVars, coolVars, nfcVars, syncVars, buttonVars>>

PressApiStartThread ==
    TurntableStartThread("api")
      /\ UNCHANGED <<armVars, calibVars, clockVars, coolVars, nfcVars, buttonVars, syncVars>>

NextPress ==
    \/ PressButton
         /\ UNCHANGED <<armVars, calibVars, clockVars, coolVars, platVars, nfcVars, syncVars>>
    \/ ReleaseButton
         /\ UNCHANGED <<armVars, calibVars, clockVars, coolVars, platVars, nfcVars, syncVars>>
    \/ PressButtonThread
    \/ PressSyncStep
    \/ PressArmMove
    \/ PressLoopThread
    \/ Tick(ButtonTick, PressHorizon)
         /\ UNCHANGED <<armVars, calibVars, coolVars, platVars, nfcVars, syncVars, buttonVars>>
    \/ ApiTurntableStart
    \/ PressApiStartThread
    \/ ApiTurntableStop

\* the threads are scheduled by the operating system: none that can run is
\* left waiting forever
PressFairness ==
    /\ WF_vars(PressButtonThread)
    /\ WF_vars(PressSyncStep)
    /\ WF_vars(PressArmMove)
    /\ WF_vars(PressLoopThread)
    /\ WF_vars(PressApiStartThread)

SpecPress == InitSpecPress /\ [][NextPress]_vars /\ PressFairness

\* toggle is on its pause branch: playback was playing the record's context
\* and the button's rotation-scan cooldown was over
OnPauseBranch ==
    /\ button.pc = "home"
    /\ button.is_playing
    /\ button.cmds = <<"pause", "platter_stop", "arm_home">>

C12_PauseCommands ==
    /\ (button.pc = "fetch" /\ button'.pc = "home") =>
          /\ button'.cmds = <<"pause", "platter_stop", "arm_home">>
          /\ turntable'.stop_requested
          /\ turntable'.target_speed = 0
    /\ (OnPauseBranch /\ button'.pc # "home") => steps_from_home' = 0

\* C12: with a mapped tag, playback playing the record's context and the
\* rotation-scan cooldown over, an accepted press requests pause once,
\* requests the platter stop and returns with the arm at steps_from_home = 0,
\* and the platter eventually reports not spinning.
C12_PauseEndToEnd ==
    /\ [][C12_PauseCommands]_vars
    /\ OnPauseBranch ~> ~turntable.spinning

\* ------------------------------------------------------------------------
\* SpecScan: the button with no tag on the reader, its scan sub-task running
\* to its timeout, the platter also commanded through the API, every thread
\* scheduled fairly and the clock advancing
\* ------------------------------------------------------------------------

\* the clock of SpecScan advances by one platter rotation at a time
ScanTick == one_rotation_sec

ScanHorizon == 900

InitSpecScan ==
    /\ InitSpecButton
    /\ nfc_current_uid = None

ScanButtonThread == button_poll_loop /\ UNCHANGED <<calibVars, clockVars, nfcVars>>

ScanSubTask ==
    (\E t \in ButtonScanThreads : scan_thread(t)) /\ UNCHANGED <<calibVars, clockVars, nfcVars>>

ScanClock ==
    Tick(ScanTick, ScanHorizon)
      /\ UNCHANGED <<armVars, calibVars, coolVars, platVars, nfcVars, syncVars, buttonVars>>

NextScan ==
    \/ PressButton
         /\ UNCHANGED <<armVars, calibVars, clockVars, coolVars, platVars, nfcVars, syncVars>>
    \/ ReleaseButton
         /\ UNCHANGED <<armVars, calibVars, clockVars, coolVars, platVars, nfcVars, syncVars>>
    \/ ScanButtonThread
    \/ ScanSubTask
    \/ PressArmMove
    \/ PressLoopThread
    \/ ScanClock
    \/ ApiTurntableStart
    \/ PressApiStartThread
    \/ ApiTurntableStop

ScanFairness ==
    /\ WF_vars(ScanButtonThread)
    /\ WF_vars(ScanSubTask)
    /\ WF_vars(PressArmMove)
    /\ WF_vars(PressLoopThread)
    /\ WF_vars(PressApiStartThread)
    /\ WF_vars(ScanClock)

SpecScan == InitSpecScan /\ [][NextScan]_vars /\ ScanFairness

\* a rotation scan that began with the first press and has found no tag
RotationScanRunning ==
    \E t \in ButtonScanThreads :
        /\ scan[t].kind = "rotation_scan_for_nfc"
        /\ scan[t].pc \in {"loop", "sleep"}
        /\ scan[t].start = StartTime

C13_ScanOpened ==
    (/\ button.pc = "toggle"
     /\ button' # button
     /\ nfc_current_uid = None
     /\ ~turntable.spinning) =>
        /\ rotation_scan_until' = now + scan_duration_sec
        /\ \E t \in ButtonScanThreads :
              /\ scan'[t].pc = "begin"
              /\ scan'[t].kind = "rotation_scan_for_nfc"

C13_ScanStartsPlatter ==
    \A t \in ButtonScanThreads :
        (scan[t].pc = "begin" /\ scan'[t].pc = "spawn") => turntable'.spinning

C13_ScanTimeoutStops ==
    \A t \in ButtonScanThreads :
        (/\ scan[t].kind = "rotation_scan_for_nfc"
         /\ scan[t].pc = "loop"
         /\ scan'[t].pc = "dead") =>
            /\ now - scan[t].start >= scan_duration_sec
            /\ turntable'.stop_requested

\* C13: with no tag and the platter not spinning, an accepted press sets the
\* shared rotation-scan deadline to the time of the press plus
\* NFC_SCAN_ROTATIONS rotations and starts the platter through its scan
\* sub-task; a scan that finds no mapped tag requests the platter stop when
\* its time is up, and the platter eventually reports not spinning.
C13_RotationScanEndToEnd ==
    /\ [][C13_ScanOpened /\ C13_ScanStartsPlatter /\ C13_ScanTimeoutStops]_vars
    /\ RotationScanRunning ~> ~turntable.spinning

\* the call sites of turntable_start with the direction each one passes: the
\* rotation scan and the sync engine pass -1, the button's start branch +1
C14_CallSites ==
    /\ \A t \in ButtonScanThreads :
          (scan[t].pc = "begin" /\ scan'[t].pc = "spawn") => turntable'.direction = -1
    /\ \A t \in ButtonSideThreads :
          (sync[t].pc = "start" /\ sync'[t].pc = "spawn") => turntable'.direction = -1
    /\ (button.pc = "fetch" /\ button'.pc = "spawn") => turntable'.direction = 1

\* C14: when turntable_start(direction=d) has run, the platter's direction is
\* the requested d, whether the platter was stopped or already spinning: -1
\* during a rotation scan, +1 after a start by the button.
C14_DirectionAsRequested == [][C14_CallSites]_vars

\* ------------------------------------------------------------------------
\* SpecPlatter: the platter alone, turntable_start and turntable_stop called
\* concurrently by every thread that has a call site, the thread test and the
\* thread start of turntable_start taken one statement at a time, the loop
\* thread and the callers scheduled fairly
\* ------------------------------------------------------------------------

\* target speeds: the default and a slower speed_rpm given through the API
PlatterSpeeds == 1 .. TURNTABLE_TARGET_STEPS_PER_SEC

nonPlatVars == <<armVars, calibVars, clockVars, coolVars, nfcVars, syncVars, buttonVars>>

InitSpecPlatter == InitArm /\ InitUncalibrated /\ InitRest

PlatterStart ==
    /\ \E t \in PlatterCallers, d \in {1, -1}, v \in PlatterSpeeds : turntable_start(t, d, v)
    /\ UNCHANGED nonPlatVars

PlatterAliveTest == (\E t \in PlatterCallers : ThreadAliveTest(t)) /\ UNCHANGED nonPlatVars

PlatterThreadCreate == (\E t \in PlatterCallers : ThreadCreate(t)) /\ UNCHANGED nonPlatVars

PlatterStop == turntable_stop /\ UNCHANGED nonPlatVars

PlatterLoop == turntable_loop_step /\ UNCHANGED nonPlatVars

NextPlatter ==
    \/ PlatterStart
    \/ PlatterAliveTest
    \/ PlatterThreadCreate
    \/ PlatterStop
    \/ PlatterLoop

PlatterFairness ==
    /\ WF_vars(PlatterAliveTest)
    /\ WF_vars(PlatterThreadCreate)
    /\ WF_vars(PlatterLoop)

SpecPlatter == InitSpecPlatter /\ [][NextPlatter]_vars /\ PlatterFairness

C15_OneLoop ==
    /\ loop_threads <= 1
    /\ IsAlive <=> loop_threads = 1

C15_SpawnOnlyWhenNoneAlive ==
    loop_threads' > loop_threads => (loop_threads = 0 /\ ~IsAlive)

\* C15: at most one platter control-loop thread is alive in every reachable
\* state, whatever the interleaving of turntable_start and turntable_stop calls
\* with the loop's exit, and a loop thread is started only when none is alive.
C15_AtMostOneLoopThread == []C15_OneLoop /\ [][C15_SpawnOnlyWhenNoneAlive]_vars

\* a start has passed the lock block while the loop thread, exiting after a
\* stop, is still alive: it stands at the is_alive() test
C15_Witness ==
    /\ \E t \in PlatterCallers : pstart[t] /\ ~pcreate[t]
    /\ IsAlive
    /\ turntable_loop.pc = "exit"
    /\ loop_threads = 1

\* turntable_stop has been called and no turntable_start since (a start sets a
\* positive target speed)
StopPending ==
    /\ turntable.spinning
    /\ turntable.stop_requested
    /\ turntable.target_speed = 0

C16_StopDoesNotWait ==
    (~turntable.stop_requested /\ turntable'.stop_requested) =>
        /\ turntable'.target_speed = 0
        /\ turntable'.spinning = turntable.spinning
        /\ turntable'.current_speed = turntable.current_speed
        /\ UNCHANGED <<turntable_loop, loop_threads>>

\* C16: turntable_stop only sets the stop flag and zeroes the target speed,
\* without waiting for the loop; and if no turntable_start follows it, then
\* under fair scheduling the platter eventually has is_spinning=false and
\* current_speed=0 with the control loop exited.
C16_StopEventuallyStops ==
    /\ [][C16_StopDoesNotWait]_vars
    /\ StopPending ~> \/ ~turntable.spinning /\ turntable.current_speed = 0 /\ ~IsAlive
                      \/ turntable.target_speed > 0

\* ------------------------------------------------------------------------
\* SpecCooldown: the two shared windows of playback_cooldown, written by the
\* button thread, a scan sub-task and an API thread whose record_local_start
\* calls overlap, while the clock advances
\* ------------------------------------------------------------------------

\* the clock of SpecCooldown advances by this much at a time; both
\* COOLDOWN_SEC and the scan duration are multiples of it
CoolTick == COOLDOWN_SEC \div 5

CoolHorizon == 900

CoolThreads == {"button", "api"} \cup ButtonScanThreads

nonCoolVars == <<armVars, calibVars, clockVars, platVars, nfcVars, syncVars, buttonVars>>

InitSpecCooldown == InitArm /\ InitUncalibrated /\ InitRest

CoolRead ==
    /\ \E t \in CoolThreads : RecordRead(t)
    /\ UNCHANGED nonCoolVars

CoolStore ==
    /\ \E t \in CoolThreads : RecordStore(t)
    /\ UNCHANGED nonCoolVars

CoolClock ==
    Tick(CoolTick, CoolHorizon)
      /\ UNCHANGED <<armVars, calibVars, coolVars, platVars, nfcVars, syncVars, buttonVars>>

NextCooldown ==
    \/ CoolRead
    \/ CoolStore
    \/ ButtonRotationScanWindow
    \/ CoolClock

SpecCooldown == InitSpecCooldown /\ [][NextCooldown]_vars

C17_StoreForwardUnlessRaced ==
    \A t \in CoolThreads :
        (cool[t].pc = "store" /\ cool'[t].pc = "idle" /\ ~cool[t].raced) =>
            last_local_start_monotonic' >= last_local_start_monotonic

C17_NeverInFuture ==
    /\ last_local_start_monotonic <= now
    /\ \A t \in CoolThreads : cool[t].pc = "store" => cool[t].reading <= now

C18_Predicates ==
    LET elapsed == now - last_local_start_monotonic
    IN  /\ elapsed < COOLDOWN_SEC => is_within_cooldown
        /\ elapsed >= COOLDOWN_SEC => ~is_within_cooldown
        /\ is_rotation_scan_active <=> now < rotation_scan_until

C18_Writes ==
    /\ \A t \in CoolThreads :
          /\ (cool[t].pc = "idle" /\ cool'[t].pc = "store") => cool'[t].reading = now
          /\ (cool[t].pc = "store" /\ cool'[t].pc = "idle") =>
                last_local_start_monotonic' = cool[t].reading
    /\ rotation_scan_until' # rotation_scan_until =>
          rotation_scan_until' = now + scan_duration_sec

\* C18: is_within_cooldown() is true at every instant less than COOLDOWN_SEC
\* after the clock reading stored by the last record_local_start() and false
\* from COOLDOWN_SEC after it on; is_rotation_scan_active() is true exactly
\* while the clock is before the last deadline given to
\* set_rotation_scan_until, which is the deadline its caller computed.
C18_CooldownPredicates == []C18_Predicates /\ [][C18_Writes]_vars

\* exactly COOLDOWN_SEC after a local start, and exactly at the deadline of a
\* rotation-scan window: neither window is active any more
C18_Witness ==
    /\ last_local_start_monotonic >= StartTime
    /\ now - last_local_start_monotonic = COOLDOWN_SEC
    /\ ~is_within_cooldown
    /\ rotation_scan_until = now
    /\ ~is_rotation_scan_active

\* ------------------------------------------------------------------------
\* the outcomes of sync_tone_arm_and_platter_to_playback
\* ------------------------------------------------------------------------

\* the nine failure reasons of the specification, under the names the code
\* gives them
NineReasons ==
    {"no_spotify", "playback_error", "paused", "no_nfc", "no_mapping",
     "context_mismatch", "context_position_unavailable", "rotation_scan",
     "cooldown"}

\* every reason a return statement of the function names
ReturnedReasons == StopReasons \cup TransientReasons

\* C19: every sync call that has returned carries the outcome ok or a failure
\* with one of the nine reasons no_spotify, playback_error, paused, no_nfc,
\* no_mapping, context_mismatch, context_position_unavailable, rotation_scan
\* and cooldown.
C19_NineReasonsOnly ==
    \A t \in SyncCallers :
        sync[t].pc = "done" => sync[t].reason \in {"ok"} \cup NineReasons

C19_ReturnedOutcome ==
    \A t \in SyncCallers :
        /\ sync[t].pc = "done" => sync[t].reason \in {"ok"} \cup NineReasons \cup {"no_playback"}
        /\ sync[t].reason = "no_playback" => sync[t].snapshot = "empty" /\ sync[t].cmds = <<>>
        /\ sync[t].reason # "" => sync[t].reason \in {"ok"} \cup ReturnedReasons

\* the outcome of a call is decided once: it stays until the result is read
\* or the next call begins
C19_OutcomeDecidedOnce ==
    \A t \in SyncCallers :
        (sync[t].reason # "" /\ sync'[t].reason # sync[t].reason)
            => sync'[t].pc \in {"idle", "fetch"}

\* C19 (amended): every sync call that has returned carries exactly one
\* outcome, decided once: ok, or a failure with one of ten reasons, the nine
\* above and no_playback, which is returned without any motor command when the
\* streaming service reports no playback at all.
C19_TenReasons == []C19_ReturnedOutcome /\ [][C19_OutcomeDecidedOnce]_vars

\* a call returned no_playback
C19_Witness ==
    /\ sync["sync"].pc = "done"
    /\ sync["sync"].reason = "no_playback"
    /\ sync["sync"].snapshot = "empty"

\* clamp of the fraction num/den (den > 0) to [0, 1], as a pair
ClampUnit(num, den) == <<Max(0, Min(den, num)), den>>

\* track_progress of a call as a pair: position_ms / duration_ms clamped, 0
\* when the duration is 0
TrackProgress(f) ==
    IF f.duration_ms > 0 THEN ClampUnit(f.progress_ms, f.duration_ms) ELSE <<0, 1>>

\* (track_index + track_progress) / total_tracks clamped, as a pair
PlaylistFraction(f) ==
    LET tp == TrackProgress(f)
    IN  ClampUnit(f.track_index * tp[2] + tp[1], tp[2] * f.total_tracks)

C20_OkFraction ==
    \A t \in SyncCallers :
        sync[t].reason = "ok" =>
            /\ FractionDen(sync[t]) > 0
            /\ FractionNum(sync[t]) * PlaylistFraction(sync[t])[2]
                  = PlaylistFraction(sync[t])[1] * FractionDen(sync[t])
            /\ 0 <= FractionNum(sync[t])
            /\ FractionNum(sync[t]) <= FractionDen(sync[t])

C20_OkCommands ==
    \A t \in SyncCallers :
        sync[t].pc = "done" =>
            /\ sync[t].reason = "ok" <=> sync[t].cmds = <<"platter_start", "arm_fraction">>
            /\ sync[t].reason # "ok" =>
                  Commands(sync[t]) \cap {"platter_start", "arm_fraction"} = {}
            /\ sync[t].reason = "ok" =>
                  steps_from_home = FractionSteps(FractionNum(sync[t]), FractionDen(sync[t]))

\* the step that issues the arm move passes the reported fraction, after the
\* platter start
C20_ArmMoveToFraction ==
    \A t \in SyncCallers :
        (sync[t].reason # "ok" /\ sync'[t].reason = "ok") =>
            /\ sync[t].cmds = <<"platter_start">>
            /\ arm'[t].op = "fraction"
            /\ arm'[t].num = FractionNum(sync'[t])
            /\ arm'[t].den = FractionDen(sync'[t])
            /\ arm'[t].steps = FractionSteps(FractionNum(sync'[t]), FractionDen(sync'[t]))

\* C20: with the outcome ok the reported fraction equals
\* clamp((track_index + track_progress) / total_tracks, 0, 1) with
\* track_progress = clamp(position_ms / duration_ms, 0, 1), 0 when the
\* duration is 0, and lies in [0, 1]; a returned call has issued a platter
\* start followed by an arm move to that fraction exactly when its outcome is
\* ok, and the arm then stands on the position of that fraction.
C20_OkFractionAndCommands ==
    []C20_OkFraction /\ []C20_OkCommands /\ [][C20_ArmMoveToFraction]_vars

\* an ok call whose position was past the end of the first of several tracks:
\* the progress is clamped and the arm stands out on the record
C20_Witness ==
    /\ sync["sync"].pc = "done"
    /\ sync["sync"].reason = "ok"
    /\ sync["sync"].track_index = 0
    /\ sync["sync"].total_tracks = 2
    /\ sync["sync"].duration_ms > 0
    /\ sync["sync"].progress_ms > sync["sync"].duration_ms
    /\ 2 * FractionNum(sync["sync"]) = FractionDen(sync["sync"])
    /\ steps_from_home > 0

\* ------------------------------------------------------------------------
\* the branches of toggle without a tag, and the rotation-scan cooldown
\* ------------------------------------------------------------------------

\* toggle has read no tag and seen the platter spinning; its next step decides
NoTagWhileSpinning == button.pc = "np_fetch"

C21_PressOnlyStartsPoll ==
    (NoTagWhileSpinning /\ button' # button) =>
        /\ button'.cmds = <<>>
        /\ UNCHANGED motorVars
        /\ \E t \in DOMAIN scan :
              /\ scan[t].pc = "dead"
              /\ scan'[t].pc = "begin"
              /\ scan'[t].kind = "poll_nfc_while_spinning"

\* a poll-while-spinning sub-task changes the platter only by the stop at its
\* timeout; until it has found a mapped tag it issues no other command
C21_PollLeavesPlatter ==
    \A t \in DOMAIN scan :
        (scan[t].kind = "poll_nfc_while_spinning" /\ scan'[t] # scan[t]
           /\ scan[t].pc \in {"begin", "loop", "sleep"})
            => \/ UNCHANGED motorVars
               \/ /\ scan[t].pc = "loop"
                  /\ now - scan[t].start >= scan_duration_sec
                  /\ scan'[t].pc = "dead"

\* C21: an accepted press that reads no tag while the platter is spinning
\* issues no pause request and no motor command, it only starts a
\* poll-while-spinning sub-task; the sub-task leaves the platter untouched
\* until it finds a mapped tag or stops the platter at its timeout.
C21_NoTagSpinningOnlyPolls ==
    [][C21_PressOnlyStartsPoll]_vars /\ [][C21_PollLeavesPlatter]_vars

\* time.monotonic() < _rotation_scan_cooldown_until
ScanCooldownActive == now < rotation_scan_cooldown_until

\* the step of toggle issues a pause request, a platter stop or an arm home
IssuesPauseOrStop ==
    /\ button'.cmds # button.cmds
    /\ (Commands(button') \cap {"pause", "platter_stop", "arm_home"}) # {}

\* the check of the branch with a mapped tag
C22_TagBranchSkips ==
    (button.pc = "fetch" /\ ScanCooldownActive) => ~IssuesPauseOrStop

\* C22: while the button's rotation-scan cooldown window is active no step of
\* toggle, on the branch with a tag or on the branches without one, issues a
\* pause request, a platter stop or an arm-home command.
C22_NoPauseInScanCooldown == [][ScanCooldownActive => ~IssuesPauseOrStop]_vars

\* ------------------------------------------------------------------------
\* SpecFound: the button pressed with an empty reader, the uid of a record
\* injected through the API (presence in simulation mode) while the scan
\* sub-task runs, against an arbitrary streaming service
\* ------------------------------------------------------------------------

InitSpecFound ==
    /\ InitArm
    /\ InitUncalibrated
    /\ InitClock
    /\ InitCooldown
    /\ InitPlatter
    /\ InitSync
    /\ gpio_low = FALSE
    /\ toggles_in_hold = 0
    /\ button = IdleButton
    /\ rotation_scan_cooldown_until = 0
    /\ scan = [t \in ButtonScanThreads |-> IdleScan]
    /\ nfc_current_uid = None
    /\ nfc_last_seen_time = None
    /\ nfc_simulate = TRUE
    /\ reader_tag = None
    /\ nfc_poll = IdlePoll

FoundButtonThread == button_poll_loop /\ UNCHANGED <<calibVars, clockVars, nfcVars>>

FoundSubTask ==
    (\E t \in ButtonScanThreads : scan_thread(t)) /\ UNCHANGED <<calibVars, clockVars, nfcVars>>

FoundSyncStep ==
    (\E t \in ButtonSideThreads : SyncStep(t))
      /\ UNCHANGED <<calibVars, clockVars, coolVars, nfcVars, buttonVars>>

FoundArmMove == (\E t \in ButtonSideThreads : ArmMove(t)) /\ UNCHANGED nonArmVars

\* POST /api/nfc/simulate with the uid of a record, the reader being empty
FoundSimulateUid ==
    /\ nfc_current_uid = None
    /\ \E u \in UIDs : set_simulated_uid(Some(u))
    /\ UNCHANGED nonNfcVars

FoundClock ==
    Tick(ButtonTick, PressHorizon)
      /\ UNCHANGED <<armVars, calibVars, coolVars, platVars, nfcVars, syncVars, buttonVars>>

NextFound ==
    \/ PressButton
         /\ UNCHANGED <<armVars, calibVars, clockVars, coolVars, platVars, nfcVars, syncVars>>
    \/ ReleaseButton
         /\ UNCHANGED <<armVars, calibVars, clockVars, coolVars, platVars, nfcVars, syncVars>>
    \/ FoundButtonThread
    \/ FoundSubTask
    \/ FoundSyncStep
    \/ FoundArmMove
    \/ PressLoopThread
    \/ FoundSimulateUid
    \/ FoundClock

SpecFound == InitSpecFound /\ [][NextFound]_vars

\* the step ends a rotation-scan sub-task
RotationScanEnds(t) ==
    /\ scan[t].kind = "rotation_scan_for_nfc"
    /\ scan[t].pc # "dead"
    /\ scan'[t].pc = "dead"

\* the sub-task is past a successful start_playback_with_fallback
PlaybackStartedBy(t) == scan[t].pc \in {"nap", "sync"}

C23_EndsStartedOrStopped ==
    \A t \in ButtonScanThreads :
        RotationScanEnds(t) =>
            \/ PlaybackStartedBy(t)
            \/ turntable'.stop_requested /\ turntable'.target_speed = 0

\* C23: a rotation-scan sub-task ends only after it has started playback for
\* the tag it found or with a platter stop requested; a scan that finds a
\* mapped tag and fails to start playback stops the platter.
C23_ScanStartsOrStops == [][C23_EndsStartedOrStopped]_vars

\* ------------------------------------------------------------------------
\* failures of external calls inside toggle
\* ------------------------------------------------------------------------

\* an external call of toggle raises in this step
FailureOccurs == button'.failed # "" /\ button'.failed # button.failed

\* the failure ends toggle and the loop goes to its sleep; a pause request
\* that fails on the branch with a mapped tag is followed by the platter stop
\* and the arm home all the same
C24_FailureEndsOnlyToggle ==
    FailureOccurs =>
        \/ /\ button'.pc = "sleep"
           /\ button'.wake = now + POLL_INTERVAL_SEC
        \/ /\ button.pc = "fetch"
           /\ button'.failed = "pause"
           /\ button'.pc = "home"
           /\ button'.cmds = <<"pause", "platter_stop", "arm_home">>
           /\ turntable'.stop_requested
           /\ arm'["button"].pc = "lock"
           /\ arm'["button"].steps = 0

\* after the sleep the loop polls, and a poll that finds the button down and
\* debounced accepts the press, whatever failed before
C24_LoopGoesOn ==
    /\ (button.pc = "sleep" /\ button' # button) => button'.pc = "poll"
    /\ (button.pc = "poll" /\ button' # button /\ gpio_low
          /\ Debounced(now, button.last_press_time)) => button'.pc = "toggle"
    /\ (button.pc = "home" /\ button' # button) => button'.pc = "sleep"

C24_LoopAlive == button.pc # "ended"

C25_CalibrationSteps ==
    \A t \in ArmCallers :
        (arm[t].op = "calibrate" /\ arm[t].pc \in {"step", "return"}) =>
            /\ arm[t].n = Abs(arm[t].steps)
            /\ arm[t].pc = "return" => arm[t].i = arm[t].n

C25_CalibrationKeepsPosition ==
    \A t \in ArmCallers :
        (arm[t].op = "calibrate" \/ arm'[t].op = "calibrate")
            => tone_arm_steps' = tone_arm_steps

C25_AbsoluteFromLogicalPosition ==
    \A t \in ArmCallers :
        (arm[t].op = "absolute" /\ arm[t].pc = "delta" /\ arm'[t] # arm[t]) =>
            /\ arm'[t].n = Abs(ClampSteps(arm[t].steps) - steps_from_home)
            /\ Abs(arm[t].steps) <= TONE_ARM_MAX_STEPS =>
                  arm'[t].n = Abs(arm[t].steps - steps_from_home)

\* C25: with a single caller, a calibration move (from_settings) of k steps
\* issues |k| motor steps and never changes steps_from_home, and an absolute
\* move to a target on the arc issues |target - steps_from_home| steps, so
\* the calibration moves before it do not change its count.
C25_CalibrationFrame ==
    /\ []C25_CalibrationSteps
    /\ [][C25_CalibrationKeepsPosition /\ C25_AbsoluteFromLogicalPosition]_vars

\* a calibration move past the end of the arc has issued all its steps with
\* the arm logically at the end of the record
C25_Witness ==
    /\ arm["api"].op = "calibrate"
    /\ arm["api"].pc = "return"
    /\ arm["api"].i = TONE_ARM_MAX_STEPS + StepOvershoot
    /\ steps_from_home = TONE_ARM_MAX_STEPS

\* ------------------------------------------------------------------------
\* the speed of the platter
\* ------------------------------------------------------------------------

C26_StartsBelowTarget ==
    (~turntable.spinning /\ turntable'.spinning) =>
        turntable'.current_speed < turntable'.target_speed

C26_RisesByAccel ==
    turntable'.current_speed > turntable.current_speed =>
        turntable'.current_speed <= turntable.current_speed + ACCEL_DT

\* the platter spins towards the target speed v with no stop requested
SpinningTowards(v) ==
    /\ turntable.spinning
    /\ ~turntable.stop_requested
    /\ turntable.target_speed = v

C26_ReachesNewTarget ==
    \A v \in PlatterSpeeds :
        SpinningTowards(v) ~> \/ turntable.current_speed = v
                              \/ ~SpinningTowards(v)

\* C26: a start from the stopped state leaves current_speed below
\* target_speed, the speed never rises by more than accel*dt in one
\* transition, and while the platter spins with no stop requested its speed
\* eventually equals the target speed the last start gave.
C26_RampsToTarget ==
    /\ [][C26_StartsBelowTarget /\ C26_RisesByAccel]_vars
    /\ C26_ReachesNewTarget

C27_StopsAtZeroSpeed ==
    (turntable.spinning /\ ~turntable'.spinning) => turntable.current_speed = 0

C27_FallsByAccel ==
    turntable'.current_speed < turntable.current_speed =>
        turntable'.current_speed >= turntable.current_speed - ACCEL_DT

\* C27: the platter is marked not spinning only in a transition that starts
\* with current_speed already 0, and the speed never falls by more than
\* accel*dt in one transition.
C27_RampsDownBeforeStop == [][C27_StopsAtZeroSpeed /\ C27_FallsByAccel]_vars

\* ------------------------------------------------------------------------
\* the platter state under the lock
\* ------------------------------------------------------------------------

C28_SnapshotConsistent ==
    ~get_turntable_state.is_spinning => get_turntable_state.current_speed = 0

\* the writes of one block under the lock, taken together: the start of a
\* stopped platter, the start of a spinning one, the stop, the loop marking
\* the platter not spinning, one change of speed by the loop
C28_WholeLockBlocks ==
    turntable' # turntable =>
        \/ /\ ~turntable.spinning
           /\ turntable' = [spinning |-> TRUE, direction |-> 1,
                             current_speed |-> turntable'.target_speed,
                             target_speed |-> turntable'.target_speed,
                             stop_requested |-> FALSE]
        \/ /\ turntable.spinning
           /\ turntable' = [turntable EXCEPT !.direction = 1,
                                              !.target_speed = turntable'.target_speed]
           /\ turntable'.target_speed > 0
        \/ turntable' = [turntable EXCEPT !.stop_requested = TRUE, !.target_speed = 0]
        \/ turntable' = [turntable EXCEPT !.spinning = FALSE, !.current_speed = 0]
        \/ /\ turntable.spinning
           /\ turntable' = [turntable EXCEPT !.current_speed = turntable'.current_speed]
           /\ Abs(turntable'.current_speed - turntable.current_speed) <= ACCEL_DT

\* C28: a snapshot of the platter state never shows is_spinning=false with a
\* current_speed other than 0, and is_spinning, direction, current_speed,
\* target_speed and the stop flag change only by the writes of one whole block
\* under the lock.
C28_LockedWrites == []C28_SnapshotConsistent /\ [][C28_WholeLockBlocks]_vars

\* the loop found the stop flag in its first block and has marked the platter
\* not spinning
C28_Witness ==
    /\ ~get_turntable_state.is_spinning
    /\ get_turntable_state.current_speed = 0
    /\ turntable.stop_requested
    /\ turntable_loop.pc = "exit"
    /\ loop_threads = 1

\* ------------------------------------------------------------------------
\* the reported tag and the grace window
\* ------------------------------------------------------------------------

\* a read succeeded within the last NFC_GRACE_SEC
ReadWithinGrace ==
    /\ nfc_last_seen_time # None
    /\ now - Get(nfc_last_seen_time) <= NFC_GRACE_SEC

\* the poll loop is in its sleep and has not overslept
PollOnTime == nfc_poll.pc = "sleep" /\ now <= nfc_poll.wake

\* C29: at every instant at which the service on hardware reports a tag, a
\* read succeeded within the last NFC_GRACE_SEC, even between two polls that
\* run on time; in simulation mode a reported tag is one that was injected and
\* not cleared since.
C29_ReportedOnlyWithinGrace ==
    (nfc_current_uid # None /\ PollOnTime) => (nfc_simulate \/ ReadWithinGrace)

\* ------------------------------------------------------------------------
\* C30: a start that follows a stop
\* ------------------------------------------------------------------------

\* turntable_start is the last platter command issued: a start leaves a
\* positive target speed and a stop leaves the target speed 0
StartIsLast == turntable.target_speed > 0

\* C30: if turntable_start is the last platter command issued, a stop before
\* it still unobserved or still decelerating included, the platter eventually
\* is spinning and stays spinning
C30_StartNeverLost == <>[]StartIsLast => <>[]is_spinning

\* ------------------------------------------------------------------------
\* C31: a platter marked spinning has a control loop
\* ------------------------------------------------------------------------

\* some thread is between the lock block of turntable_start and its return
StartInProgress == \E t \in PlatterCallers : pstart[t] \/ pcreate[t]

\* C31: whenever is_spinning is true and no turntable_start call is in
\* progress, a control-loop thread is alive
C31_SpinningHasLoop == (is_spinning /\ ~StartInProgress) => IsAlive

\* ------------------------------------------------------------------------
\* SpecArmPair: two absolute moves in flight at once, one entered by the
\* periodic sync loop (sync_tone_arm_to_fraction) and one by an API caller
\* (move_tone_arm(steps, absolute=True)), from any position of the arc; each
\* thread runs its one call to the end of its step loop
\* ------------------------------------------------------------------------

\* the frame of a thread that has just entered move_tone_arm(steps, absolute=True)
AbsoluteFrame(op, steps, num, den) ==
    [IdleFrame EXCEPT !.pc = "lock", !.op = op, !.steps = steps, !.absolute = TRUE,
                      !.num = num, !.den = den]

InitSpecArmPair ==
    /\ InitUncalibrated
    /\ tone_arm_steps \in (-TONE_ARM_MAX_STEPS) .. TONE_ARM_MAX_STEPS
    /\ tone_arm_sequence_index = tone_arm_steps % Len(HALF_STEP_SEQUENCE)
    /\ \E s \in StepArgs, k \in Fractions :
          arm = [t \in ArmCallers |->
                   IF t = "api" THEN AbsoluteFrame("absolute", s, 0, 1)
                   ELSE IF t = "sync"
                        THEN AbsoluteFrame("fraction", FractionSteps(k, FracDen), k, FracDen)
                        ELSE IdleFrame]
    /\ fracLog = NoLog
    /\ InitRest

PairSyncMove == ArmMove("sync") /\ UNCHANGED nonArmVars

PairApiMove == ArmMove("api") /\ UNCHANGED nonArmVars

NextArmPair == PairSyncMove \/ PairApiMove

SpecArmPair == InitSpecArmPair /\ [][NextArmPair]_vars

\* both moves have issued all their steps and are returning
BothReturned == arm["sync"].pc = "return" /\ arm["api"].pc = "return"

\* C32: when two concurrent absolute arm moves have both returned,
\* steps_from_home equals the clamped target of one of the two calls
C32_EndsAtOneTarget ==
    BothReturned =>
        \/ steps_from_home = ClampSteps(arm["sync"].steps)
        \/ steps_from_home = ClampSteps(arm["api"].steps)

\* ------------------------------------------------------------------------
\* SpecFoundSync: SpecFound with the button pressed once and let go before
\* the clock moves, followed until both sync attempts of the sub-task that
\* found the record are over
\* ------------------------------------------------------------------------

\* the clock advances by the sleep before the first sync attempt
FoundSyncTick == SettleSleep

FoundSyncHorizon == 460

\* the first press of the button
FirstPress == button.last_press_time = 0 /\ PressButton

FoundSyncClock ==
    /\ ~gpio_low
    /\ Tick(FoundSyncTick, FoundSyncHorizon)
    /\ UNCHANGED <<armVars, calibVars, coolVars, platVars, nfcVars, syncVars, buttonVars>>

NextFoundSync ==
    \/ FirstPress
         /\ UNCHANGED <<armVars, calibVars, clockVars, coolVars, platVars, nfcVars, syncVars>>
    \/ ReleaseButton
         /\ UNCHANGED <<armVars, calibVars, clockVars, coolVars, platVars, nfcVars, syncVars>>
    \/ FoundButtonThread
    \/ FoundSubTask
    \/ FoundSyncStep
    \/ FoundArmMove
    \/ PressLoopThread
    \/ FoundSimulateUid
    \/ FoundSyncClock

SpecFoundSync == InitSpecFound /\ [][NextFoundSync]_vars

\* ------------------------------------------------------------------------
\* C33: the sync attempts of a rotation scan that found its record
\* ------------------------------------------------------------------------

\* a sync call made by _on_nfc_tag_found in rotation-scan sub-task t has
\* returned and its result is about to be read
ScanSyncReturned(t) ==
    /\ scan[t].kind = "rotation_scan_for_nfc"
    /\ scan[t].pc = "sync"
    /\ sync[t].pc = "done"

\* C33: the sync attempts made by a rotation-scan sub-task that found a mapped
\* token and started playback are not blocked by the rotation-scan window: an
\* attempt that found playback playing the matching context with the track
\* position available does not return rotation_scan
C33_ScanSyncNotBlocked ==
    \A t \in ButtonScanThreads : ScanSyncReturned(t) => sync[t].reason # "rotation_scan"

\* ------------------------------------------------------------------------
\* SpecTwoScans: SpecFound with room for two scan sub-tasks, the button
\* pressed briefly any number of times
\* ------------------------------------------------------------------------

TwoScanHorizon == 380

InitSpecTwoScans ==
    /\ InitArm
    /\ InitUncalibrated
    /\ InitClock
    /\ InitCooldown
    /\ InitPlatter
    /\ InitSync
    /\ gpio_low = FALSE
    /\ toggles_in_hold = 0
    /\ button = IdleButton
    /\ rotation_scan_cooldown_until = 0
    /\ scan = [t \in ScanThreads |-> IdleScan]
    /\ nfc_current_uid = None
    /\ nfc_last_seen_time = None
    /\ nfc_simulate = TRUE
    /\ reader_tag = None
    /\ nfc_poll = IdlePoll

TwoScanSubTask ==
    (\E t \in ScanThreads : scan_thread(t)) /\ UNCHANGED <<calibVars, clockVars, nfcVars>>

TwoScanSyncStep ==
    (\E t \in {"button"} \cup ScanThreads : SyncStep(t))
      /\ UNCHANGED <<calibVars, clockVars, coolVars, nfcVars, buttonVars>>

TwoScanArmMove == (\E t \in {"button"} \cup ScanThreads : ArmMove(t)) /\ UNCHANGED nonArmVars

TwoScanClock ==
    /\ ~gpio_low
    /\ Tick(FoundSyncTick, TwoScanHorizon)
    /\ UNCHANGED <<armVars, calibVars, coolVars, platVars, nfcVars, syncVars, buttonVars>>

NextTwoScans ==
    \/ PressButton
         /\ UNCHANGED <<armVars, calibVars, clockVars, coolVars, platVars, nfcVars, syncVars>>
    \/ ReleaseButton
         /\ UNCHANGED <<armVars, calibVars, clockVars, coolVars, platVars, nfcVars, syncVars>>
    \/ FoundButtonThread
    \/ TwoScanSubTask
    \/ TwoScanSyncStep
    \/ TwoScanArmMove
    \/ PressLoopThread
    \/ FoundSimulateUid
    \/ TwoScanClock

SpecTwoScans == InitSpecTwoScans /\ [][NextTwoScans]_vars

\* ------------------------------------------------------------------------
\* C34: one scan sub-task at a time
\* ------------------------------------------------------------------------

\* the scan sub-tasks that are running
ActiveScans == {t \in DOMAIN scan : scan[t].pc # "dead"}

\* the sub-tasks that have requested the playback start for the placed token
StartedScans == {t \in DOMAIN scan : PlaybackStartedBy(t)}

\* C34: at most one scan sub-task (rotation scan or poll while spinning) is
\* active at any time, and for one discovered token playback start is
\* requested at most once
C34_OneScanOneStart ==
    /\ Cardinality(ActiveScans) <= 1
    /\ Cardinality(StartedScans) <= 1

\* ------------------------------------------------------------------------
\* C35: a failed start request on the start branch of toggle
\* ------------------------------------------------------------------------

\* start_playback_with_fallback raises on the start branch in this step
StartRequestFails == button.pc = "fetch" /\ button'.failed = "start"

\* the press reaches the playback snapshot with a mapped record on the reader
ReachesFetch == button.pc = "toggle" /\ button'.pc = "fetch"

\* platter state, the button thread's arm and sync frames and the two cooldown
\* deadlines are as they were
PressChangesNothing ==
    /\ UNCHANGED <<turntable, pstart, tone_arm_steps>>
    /\ arm'["button"] = arm["button"]
    /\ sync'["button"] = sync["button"]
    /\ UNCHANGED <<last_local_start_monotonic, rotation_scan_until,
                   rotation_scan_cooldown_until>>

C35_FailedStartStep ==
    /\ ReachesFetch => PressChangesNothing
    /\ StartRequestFails =>
          /\ PressChangesNothing
          /\ button'.pc = "sleep"
          /\ button'.cmds = <<"play">>
          /\ sync["button"].pc = "idle"

\* C35: on the start branch of toggle, if the playback start request fails,
\* the platter is not started, no local-start cooldown is recorded and no
\* sync is attempted: platter state, arm position and both cooldown deadlines
\* are unchanged by that press
C35_FailedStartChangesNothing == [][C35_FailedStartStep]_vars

\* a press whose start request failed is over, with the platter at rest and
\* no local start ever recorded
C35_Witness ==
    /\ button.failed = "start"
    /\ button.pc = "sleep"
    /\ button.cmds = <<"play">>
    /\ ~is_spinning
    /\ last_local_start_monotonic = 0

\* ------------------------------------------------------------------------
\* SpecStartSync: a mapped record on the reader and the button pressed once,
\* briefly; the clock runs past the local-start cooldown while toggle makes
\* its sync attempts, each call and each sleep taking any time
\* ------------------------------------------------------------------------

\* the clock advances by a third of the cooldown at a time
StartSyncTick == COOLDOWN_SEC \div 3

StartSyncHorizon == 700

StartSyncClock ==
    /\ ~gpio_low
    /\ Tick(StartSyncTick, StartSyncHorizon)
    /\ UNCHANGED <<armVars, calibVars, coolVars, platVars, nfcVars, syncVars, buttonVars>>

NextStartSync ==
    \/ FirstPress
         /\ UNCHANGED <<armVars, calibVars, clockVars, coolVars, platVars, nfcVars, syncVars>>
    \/ ReleaseButton
         /\ UNCHANGED <<armVars, calibVars, clockVars, coolVars, platVars, nfcVars, syncVars>>
    \/ PressButtonThread
    \/ PressSyncStep
    \/ PressArmMove
    \/ PressLoopThread
    \/ StartSyncClock

SpecStartSync == InitSpecPress /\ [][NextStartSync]_vars

\* ------------------------------------------------------------------------
\* C36: the sync attempts of the toggle that started playback
\* ------------------------------------------------------------------------

\* a sync attempt made by toggle after its start is in progress or has returned
ToggleSyncAttempt == button.pc = "sync"

\* the attempt has stopped the platter and sent the arm home
AttemptStopped == sync["button"].reason \in StopReasons

\* C36 as stated: the sync attempts made by the toggle that started playback
\* never stop the platter or home the arm
C36_AttemptsNeverStop == ToggleSyncAttempt => ~AttemptStopped

\* the step in which the attempt reads the playback state and decides
AttemptDecides ==
    /\ ToggleSyncAttempt
    /\ sync["button"].pc = "fetch"
    /\ sync'["button"].pc # "fetch"

C36_DecisionInCooldown ==
    (AttemptDecides /\ now - button.last_press_time < COOLDOWN_SEC) =>
        /\ ~AttemptStopped'
        /\ turntable' = turntable
        /\ arm'["button"] = arm["button"]

C36_DecisionAfterCooldown ==
    (AttemptDecides /\ AttemptStopped') =>
        now - last_local_start_monotonic >= COOLDOWN_SEC

\* C36 amended: an attempt that reads the playback state less than
\* COOLDOWN_SEC after the press neither stops the platter nor homes the arm,
\* whatever the service reports; an attempt stops and homes only when its
\* read comes COOLDOWN_SEC or more after the start was recorded
C36_AttemptsInCooldownNeverStop ==
    [][C36_DecisionInCooldown /\ C36_DecisionAfterCooldown]_vars

\* an attempt inside the cooldown found playback paused or failing and
\* returned cooldown, with the platter left as it was
C36_Witness ==
    /\ ToggleSyncAttempt
    /\ sync["button"].pc = "done"
    /\ sync["button"].reason = "cooldown"
    /\ sync["button"].snapshot \in {"paused", "error"}
    /\ ~turntable.stop_requested

\* ------------------------------------------------------------------------
\* SpecDelay: the step loop of move_tone_arm for moves of every length; the
\* calibration moves of the settings page are not clamped to the arc, so
\* they give every number of steps.  Delays are in milliseconds, kept exact
\* as multiples of 1/RampDen
\* ------------------------------------------------------------------------

\* config.MOTOR_MIN_DELAY (0.001 s)
MOTOR_MIN_DELAY == 1

\* config.MOTOR_MAX_DELAY (0.008 s)
MOTOR_MAX_DELAY == 8

\* the longest ramp: min(steps_to_move // 3, 50)
MaxRampSteps == 50

\* calibration moves are of at most this many steps
MaxCalibMove == 160

\* steps_accel = steps_decel = min(steps_to_move // 3, 50)
steps_accel(n) == Min(n \div 3, MaxRampSteps)

steps_decel(n) == Min(n \div 3, MaxRampSteps)

\* the denominator of the delays of a move of n steps
RampDen(n) == Max(1, steps_accel(n))

delay_for_step_unscaled(n, step_num) ==
    IF step_num < steps_accel(n) /\ steps_accel(n) > 0
    THEN (MOTOR_MAX_DELAY - step_num * (MOTOR_MAX_DELAY - MOTOR_MIN_DELAY)) * RampDen(n)
    ELSE IF step_num >= n - steps_decel(n) /\ steps_decel(n) > 0
    THEN (MOTOR_MAX_DELAY - (n - step_num) * (MOTOR_MAX_DELAY - MOTOR_MIN_DELAY)) * RampDen(n)
    ELSE MOTOR_MIN_DELAY * RampDen(n)

\* delay_for_step(step_num) of a move of n steps, times RampDen(n):
\* MAX - t * (MAX - MIN) with t = step_num / steps_accel on the way up and
\* t = (n - step_num) / steps_decel on the way down, MIN in between
delay_for_step(n, step_num) ==
    IF step_num < steps_accel(n) /\ steps_accel(n) > 0
    THEN MOTOR_MAX_DELAY * steps_accel(n) - step_num * (MOTOR_MAX_DELAY - MOTOR_MIN_DELAY)
    ELSE IF step_num >= n - steps_decel(n) /\ steps_decel(n) > 0
    THEN MOTOR_MAX_DELAY * steps_decel(n)
           - (n - step_num) * (MOTOR_MAX_DELAY - MOTOR_MIN_DELAY)
    ELSE MOTOR_MIN_DELAY * RampDen(n)

\* POST calibration move: move_tone_arm(steps, from_settings=True)
CalibrationMove ==
    /\ \E s \in (-MaxCalibMove) .. MaxCalibMove : move_tone_arm("api", s, FALSE, TRUE)
    /\ UNCHANGED nonArmVars

DelayStep == ArmProgress("api") /\ UNCHANGED nonArmVars

NextDelay == CalibrationMove \/ DelayStep

SpecDelay == InitSpecArm /\ [][NextDelay]_vars

\* the step loop of thread t is about to issue step i of n and sleep
InStepLoop(t) == arm[t].pc = "step" /\ arm[t].i < arm[t].n

C37_DelayOfStep(n, i) ==
    /\ delay_for_step(n, i) >= MOTOR_MIN_DELAY * RampDen(n)
    /\ delay_for_step(n, i) <= MOTOR_MAX_DELAY * RampDen(n)
    /\ (i + 1 < steps_accel(n)) => delay_for_step(n, i + 1) <= delay_for_step(n, i)
    /\ (i >= steps_accel(n) /\ i < n - steps_decel(n)) =>
          delay_for_step(n, i) = MOTOR_MIN_DELAY * RampDen(n)
    /\ (i >= n - steps_decel(n) /\ i + 1 < n) =>
          delay_for_step(n, i + 1) >= delay_for_step(n, i)
    /\ steps_accel(n) + steps_decel(n) <= n
    /\ i = 0 /\ steps_accel(n) > 0 => delay_for_step(n, i) = MOTOR_MAX_DELAY * RampDen(n)

\* C37: for every move of n steps the delay of every step lies in
\* [MIN_DELAY, MAX_DELAY], does not increase over the first min(n/3, 50)
\* steps, equals MIN_DELAY on the plateau, does not decrease over the last
\* min(n/3, 50) steps, and the two ramps do not overlap
C37_DelayProfile ==
    \A t \in ArmCallers : InStepLoop(t) => C37_DelayOfStep(arm[t].n, arm[t].i)

\* the last step of a move long enough for ramps of the full 50 steps, its
\* delay strictly between the two limits
C37_Witness ==
    /\ InStepLoop("api")
    /\ steps_accel(arm["api"].n) = MaxRampSteps
    /\ arm["api"].i = arm["api"].n - 1
    /\ delay_for_step(arm["api"].n, arm["api"].i) > MOTOR_MIN_DELAY * RampDen(arm["api"].n)
    /\ delay_for_step(arm["api"].n, arm["api"].i) < MOTOR_MAX_DELAY * RampDen(arm["api"].n)

\* ------------------------------------------------------------------------
\* C38: the half-step sequence index
\* ------------------------------------------------------------------------

SequenceIndices == 0 .. (Len(HALF_STEP_SEQUENCE) - 1)

RECURSIVE AdvanceTimes(_, _, _)
\* k advances from index idx, all in the same direction
AdvanceTimes(idx, direction, k) ==
    IF k = 0 THEN idx ELSE AdvanceTimes(advance(idx, direction), direction, k - 1)

\* the index is one of the eight, and from it eight advances in one
\* direction, or an advance and an advance back, return to it
C38_IndexInRange ==
    /\ tone_arm_sequence_index \in SequenceIndices
    /\ \A d \in {1, -1} :
          /\ advance(tone_arm_sequence_index, d) \in SequenceIndices
          /\ AdvanceTimes(tone_arm_sequence_index, d, Len(HALF_STEP_SEQUENCE))
                = tone_arm_sequence_index
          /\ advance(advance(tone_arm_sequence_index, d), -d) = tone_arm_sequence_index

\* a step moves the index by one place round the cycle, in the direction of
\* the move: up from 7 is 0 and down from 0 is 7
C38_StepAdvances ==
    tone_arm_sequence_index' # tone_arm_sequence_index =>
        \E t \in ArmCallers :
            /\ arm[t].pc = "step"
            /\ arm'[t].i = arm[t].i + 1
            /\ tone_arm_sequence_index' =
                 IF arm[t].dir = 1
                 THEN (IF tone_arm_sequence_index = 7 THEN 0 ELSE tone_arm_sequence_index + 1)
                 ELSE (IF tone_arm_sequence_index = 0 THEN 7 ELSE tone_arm_sequence_index - 1)

\* C38: the half-step sequence index always stays in 0..7; advancing from
\* index i in direction d gives (i + d) mod 8; eight advances in the same
\* direction return to the starting index, and an advance followed by an
\* advance in the opposite direction returns to the starting index
C38_SequenceIndex == []C38_IndexInRange /\ [][C38_StepAdvances]_vars

\* a step back from index 0 has just wrapped round to 7
C38_Witness ==
    /\ tone_arm_sequence_index = 7
    /\ arm["api"].pc = "step"
    /\ arm["api"].dir = -1
    /\ arm["api"].i = 1

====
